---------------------------- MODULE Spec2Model ----------------------------
(***************************************************************************)
(* A model of the token scanners of solana-memecoin-bot:                   *)
(*   src/multi_launchpad_scanner.py  (MultiLaunchpadScanner, "multi")      *)
(*   src/early_token_scanner.py      (EliteTokenScanner, "elite")          *)
(*                                                                         *)
(* Python strings are sequences of one-character strings, so that          *)
(* lower(), `in`, len(), isdigit(), isalpha() and re.search() are computed *)
(* and not assumed.  Floats that the code only compares are integers.      *)
(* asyncio is cooperative: every action below is the code between two      *)
(* suspension points (await of network I/O, of the notifier, of a sleep).  *)
(***************************************************************************)
EXTENDS Integers, Sequences, FiniteSets, TLC

VARIABLES
    scanner,            \* which program runs: "multi" or "elite"
    now,                \* datetime.now(), in seconds
    seen_tokens,        \* scanner.seen_tokens (the Dedup Store)
    elite_devs,         \* dev_tracker.elite_devs
    blacklisted_devs,   \* dev_tracker.blacklisted_devs
    dev_history,        \* dev_tracker.dev_history
    wsState,            \* position of connect_and_subscribe
    current_delay,      \* its local current_delay
    scanPc,             \* position of scan_other_sources
    scanQueue,          \* entries of the snapshot still to be looped over
    seen_pairs,         \* dexscreener.seen_pairs
    birdeye_seen,       \* birdeye.seen_tokens
    call,               \* per task: the bot.send_message call it awaits
    alerted,            \* observer: addresses alerted since the last clear
    evicted,            \* observer: seen_tokens.clear() has run
    escaped,            \* observer: an exception left on_new_token
    sleeps,             \* observer: delays slept since the last reset
    probe,              \* observer: results of pure-function evaluations
    main,               \* main(): its position, the environment, the exit
    noted               \* observer: failures that were logged and skipped

vars == << scanner, now, seen_tokens, elite_devs, blacklisted_devs,
           dev_history, wsState, current_delay, scanPc, scanQueue,
           seen_pairs, birdeye_seen, call, alerted, evicted, escaped,
           sleeps, probe, main, noted >>

trackerVars == << elite_devs, blacklisted_devs, dev_history >>
streamVars  == << wsState, current_delay, sleeps >>
scanVars    == << scanPc, scanQueue, seen_pairs, birdeye_seen >>
storeVars   == << seen_tokens, alerted, evicted >>

None == "<None>"

(***************************************************************************)
(* Python str operations                                                   *)
(***************************************************************************)
UpperChars == << "A","B","C","D","E","F","G","H","I","J","K","L","M",
                 "N","O","P","Q","R","S","T","U","V","W","X","Y","Z" >>
LowerChars == << "a","b","c","d","e","f","g","h","i","j","k","l","m",
                 "n","o","p","q","r","s","t","u","v","w","x","y","z" >>
Digits == { "0","1","2","3","4","5","6","7","8","9" }
Letters == { UpperChars[i] : i \in 1..26 } \cup { LowerChars[i] : i \in 1..26 }

LowerChar(c) ==
    IF \E i \in 1..26 : UpperChars[i] = c
    THEN LowerChars[CHOOSE i \in 1..26 : UpperChars[i] = c]
    ELSE c

\* str.lower()
Lower(s) == [ i \in 1..Len(s) |-> LowerChar(s[i]) ]

\* str.upper() on the characters upper() changes
UpperChar(c) ==
    IF \E i \in 1..26 : LowerChars[i] = c
    THEN UpperChars[CHOOSE i \in 1..26 : LowerChars[i] = c]
    ELSE c

\* `needle in hay`
Contains(hay, needle) ==
    \E i \in 1..(Len(hay) - Len(needle) + 1) :
        SubSeq(hay, i, i + Len(needle) - 1) = needle

\* sum(c.isdigit() for c in s)
DigitCount(s) == Cardinality({ i \in 1..Len(s) : s[i] \in Digits })

\* str.isalpha()
IsAlpha(s) == Len(s) > 0 /\ \A i \in 1..Len(s) : s[i] \in Letters

\* str.isalnum()
IsAlnum(s) == Len(s) > 0 /\ \A i \in 1..Len(s) : s[i] \in Letters \cup Digits

\* str.replace(c, '')
Without(s, c) == SelectSeq(s, LAMBDA x : x # c)

\* truthiness of an Optional[str]
Truthy(v) == v # None /\ v # ""

\* re.search(pattern, s) for the two shapes of banned_patterns:
\*   \d{n,}        [kind |-> "digits", n |-> n]
\*   [chars]\d{n,} [kind |-> "prefixed", chars |-> chars, n |-> n]
DigitsAt(s, i, n) ==
    i + n - 1 <= Len(s) /\ \A k \in i..(i + n - 1) : s[k] \in Digits

ReSearch(pattern, s) ==
    IF pattern.kind = "digits"
    THEN \E i \in 1..Len(s) : DigitsAt(s, i, pattern.n)
    ELSE \E i \in 1..Len(s) :
            s[i] \in pattern.chars /\ DigitsAt(s, i + 1, pattern.n)

Min(a, b) == IF a < b THEN a ELSE b

(***************************************************************************)
(* Criteria (self.criteria of both scanners)                               *)
(***************************************************************************)
winning_themes ==
    << [theme_name |-> "dogs", keywords |->
          << <<"d","o","g">>, <<"d","o","g","e">>, <<"s","h","i","b","a">>,
             <<"w","i","f">>, <<"b","o","n","k">>, <<"p","u","p">>,
             <<"i","n","u">>, <<"p","u","p","p","y">> >>],
       [theme_name |-> "cats", keywords |->
          << <<"c","a","t">>, <<"p","o","p","c","a","t">>,
             <<"k","i","t","t","y">>, <<"m","e","o","w">>,
             <<"n","e","k","o">> >>],
       [theme_name |-> "memes", keywords |->
          << <<"p","e","p","e">>, <<"w","o","j","a","k">>,
             <<"c","h","a","d">>, <<"g","i","g","a","c","h","a","d">>,
             <<"s","m","u","g">>, <<"a","p","u">>, <<"b","o","b","o">> >>],
       [theme_name |-> "ai", keywords |->
          << <<"a","i">>, <<"a","g","e","n","t">>, <<"g","p","t">>,
             <<"c","h","a","t","g","p","t">>, <<"c","l","a","u","d","e">>,
             <<"b","o","t">> >>],
       [theme_name |-> "political", keywords |->
          << <<"t","r","u","m","p">>, <<"m","a","g","a">>,
             <<"b","i","d","e","n">>, <<"a","m","e","r","i","c","a">> >>],
       [theme_name |-> "food", keywords |->
          << <<"p","i","z","z","a">>, <<"t","a","c","o">>,
             <<"b","u","r","g","e","r">>, <<"f","r","i","e","s">> >>] >>

blacklist_keywords ==
    << <<"t","e","s","t">>, <<"s","c","a","m">>, <<"r","u","g">>,
       <<"h","o","n","e","y","p","o","t">>, <<"m","o","o","n">>,
       <<"g","e","m">>, <<"s","a","f","e">>, <<"1","0","0","x">>,
       <<"1","0","0","0","x">>, <<"l","a","m","b","o">>,
       <<"r","o","c","k","e","t">>,
       <<"m","i","l","l","i","o","n","a","i","r","e">>, <<"r","i","c","h">>,
       <<"r","a","n","d","o","m">>, <<"a","s","d","f">>,
       <<"q","w","e","r","t","y">> >>

\* r'\d{4,}' and r'[x..]\d{2,}'; a non-ASCII character of the class is
\* written as its name in angle brackets
banned_patterns(xchars) ==
    << [kind |-> "digits", chars |-> {}, n |-> 4],
       [kind |-> "prefixed", chars |-> xchars, n |-> 2] >>

MultiCriteria ==
    [ min_liquidity |-> 20,
      max_liquidity |-> 200,
      max_token_age_seconds |-> 600,
      allowed_sources |-> { <<"p","u","m","p","f","u","n">>,
                            <<"r","a","y","d","i","u","m">>,
                            <<"o","r","c","a">>,
                            <<"j","u","p","i","t","e","r">>,
                            <<"b","i","r","d","e","y","e">> },
      require_socials |-> FALSE,
      max_symbol_length |-> 8,
      min_symbol_length |-> 3,
      require_theme_match |-> TRUE,
      winning_themes |-> winning_themes,
      blacklist_keywords |-> blacklist_keywords,
      banned_patterns |-> banned_patterns({"x", "<times>"}),
      min_priority_score |-> 150,
      block_bad_devs |-> TRUE,
      boost_good_devs |-> TRUE,
      elite_dev_bonus |-> 50,
      good_dev_bonus |-> 25 ]

EliteCriteria ==
    [ min_pumpfun_liquidity |-> 20,
      max_pumpfun_liquidity |-> 200,
      max_token_age_seconds |-> 600,
      require_socials |-> FALSE,
      max_symbol_length |-> 8,
      min_symbol_length |-> 3,
      require_theme_match |-> TRUE,
      winning_themes |-> winning_themes,
      blacklist_keywords |-> Append(blacklist_keywords, <<"z","z","z","z">>),
      banned_patterns |-> banned_patterns({"x", "<sqrt>", "<o-acute>"}),
      min_priority_score |-> 150 ]


(***************************************************************************)
(* Eligibility filter and priority scorer                                  *)
(***************************************************************************)
Pass(reason) == [passes |-> TRUE, reason |-> reason]
Fail(reason) == [passes |-> FALSE, reason |-> reason]

\* A variant of KeywordHit that looks in the name only.
KeywordHit_nameOnly(keyword, name_lower, symbol_lower) ==
    Contains(name_lower, keyword)

\* `keyword in name_lower or keyword in symbol_lower`
KeywordHit(keyword, name_lower, symbol_lower) ==
    Contains(name_lower, keyword) \/ Contains(symbol_lower, keyword)

\* the first keyword of the blacklist loop that returns, 0 when none does
FirstBlacklisted(keywords, name_lower, symbol_lower) ==
    IF \E i \in 1..Len(keywords) : KeywordHit(keywords[i], name_lower, symbol_lower)
    THEN CHOOSE i \in 1..Len(keywords) :
            /\ KeywordHit(keywords[i], name_lower, symbol_lower)
            /\ \A j \in 1..(i - 1) : ~KeywordHit(keywords[j], name_lower, symbol_lower)
    ELSE 0

\* the banned-pattern loop
AnyBanned(patterns, name_lower, symbol_lower) ==
    \E i \in 1..Len(patterns) :
        ReSearch(patterns[i], name_lower) \/ ReSearch(patterns[i], symbol_lower)

\* has_theme after the theme loops of meets_criteria
HasTheme(themes, name_lower, symbol_lower) ==
    \E i \in 1..Len(themes) : \E k \in 1..Len(themes[i].keywords) :
        KeywordHit(themes[i].keywords[k], name_lower, symbol_lower)

\* A variant of NameChecks that counts the digits before it looks for a
\* theme.
NameChecks_digitsBeforeTheme(criteria, token, passed) ==
    LET sym_len      == Len(token.symbol)
        name_lower   == Lower(token.name)
        symbol_lower == Lower(token.symbol)
        black        == FirstBlacklisted(criteria.blacklist_keywords,
                                         name_lower, symbol_lower)
    IN  IF sym_len > criteria.max_symbol_length
        THEN Fail(<<"Symbol too long", sym_len>>)
        ELSE IF sym_len < criteria.min_symbol_length
        THEN Fail(<<"Symbol too short", sym_len>>)
        ELSE IF black # 0
        THEN Fail(<<"Blacklisted", criteria.blacklist_keywords[black]>>)
        ELSE IF AnyBanned(criteria.banned_patterns, name_lower, symbol_lower)
        THEN Fail(<<"Banned pattern">>)
        ELSE IF DigitCount(token.symbol) > 1
        THEN Fail(<<"Too many numbers">>)
        ELSE IF criteria.require_theme_match
                /\ ~HasTheme(criteria.winning_themes, name_lower, symbol_lower)
        THEN Fail(<<"No theme match">>)
        ELSE Pass(<<passed>>)

\* The checks that both scanners run after the liquidity check: symbol
\* length, blacklist, banned patterns, theme, digit count.
NameChecks(criteria, token, passed) ==
    LET sym_len      == Len(token.symbol)
        name_lower   == Lower(token.name)
        symbol_lower == Lower(token.symbol)
        black        == FirstBlacklisted(criteria.blacklist_keywords,
                                         name_lower, symbol_lower)
    IN  IF sym_len > criteria.max_symbol_length
        THEN Fail(<<"Symbol too long", sym_len>>)
        ELSE IF sym_len < criteria.min_symbol_length
        THEN Fail(<<"Symbol too short", sym_len>>)
        ELSE IF black # 0
        THEN Fail(<<"Blacklisted", criteria.blacklist_keywords[black]>>)
        ELSE IF AnyBanned(criteria.banned_patterns, name_lower, symbol_lower)
        THEN Fail(<<"Banned pattern">>)
        ELSE IF criteria.require_theme_match
                /\ ~HasTheme(criteria.winning_themes, name_lower, symbol_lower)
        THEN Fail(<<"No theme match">>)
        ELSE IF DigitCount(token.symbol) > 1
        THEN Fail(<<"Too many numbers">>)
        ELSE Pass(<<passed>>)

\* liq of MultiLaunchpadScanner: pump.fun liquidity is in SOL, times 100
MultiLiq(token) ==
    IF token.source = <<"p","u","m","p","f","u","n">>
    THEN token.initial_liquidity * 100
    ELSE token.initial_liquidity

\* A variant of MultiMeetsCriteria whose age limit is half the configured
\* one.
MultiMeetsCriteria_halfAgeLimit(criteria, token, t) ==
    LET age_seconds == t - token.timestamp
        liq         == MultiLiq(token)
    IN  IF age_seconds * 2 > criteria.max_token_age_seconds
        THEN Fail(<<"Too old", age_seconds>>)
        ELSE IF liq < criteria.min_liquidity
        THEN Fail(<<"Low liquidity", liq>>)
        ELSE IF liq > criteria.max_liquidity * 1000
        THEN Fail(<<"High liquidity", liq>>)
        ELSE NameChecks(criteria, token, "Passed")

\* MultiLaunchpadScanner.meets_criteria, at datetime.now() = t
MultiMeetsCriteria(criteria, token, t) ==
    LET age_seconds == t - token.timestamp
        liq         == MultiLiq(token)
    IN  IF age_seconds > criteria.max_token_age_seconds
        THEN Fail(<<"Too old", age_seconds>>)
        ELSE IF liq < criteria.min_liquidity
        THEN Fail(<<"Low liquidity", liq>>)
        ELSE IF liq > criteria.max_liquidity * 1000
        THEN Fail(<<"High liquidity", liq>>)
        ELSE NameChecks(criteria, token, "Passed")

\* EliteTokenScanner.meets_criteria, at datetime.now() = t
EliteMeetsCriteria(criteria, token, t) ==
    LET age_seconds == t - token.timestamp
        liq         == token.initial_liquidity
    IN  IF age_seconds > criteria.max_token_age_seconds
        THEN Fail(<<"Too old", age_seconds>>)
        ELSE IF liq < criteria.min_pumpfun_liquidity
        THEN Fail(<<"Low liquidity", liq>>)
        ELSE IF liq > criteria.max_pumpfun_liquidity
        THEN Fail(<<"High liquidity", liq>>)
        ELSE IF criteria.require_socials
                /\ ~Truthy(token.twitter) /\ ~Truthy(token.telegram)
        THEN Fail(<<"No socials">>)
        ELSE NameChecks(criteria, token, "Elite check passed")

\* the timing component (the same in both scanners)
TimingScore(age_seconds) ==
    IF 120 <= age_seconds /\ age_seconds <= 300 THEN 50
    ELSE IF 60 <= age_seconds /\ age_seconds <= 600 THEN 45
    ELSE IF age_seconds < 120 THEN 35
    ELSE 20

MultiLiquidityScore(liq) ==
    IF 3000 <= liq /\ liq <= 10000 THEN 40
    ELSE IF 2000 <= liq /\ liq <= 15000 THEN 35
    ELSE IF liq >= 1500 THEN 25
    ELSE 0

EliteLiquidityScore(liq) ==
    IF 30 <= liq /\ liq <= 100 THEN 40
    ELSE IF 20 <= liq /\ liq <= 150 THEN 35
    ELSE IF liq >= 15 THEN 25
    ELSE 10

SocialScore(token) ==
    (IF Truthy(token.twitter) THEN 15 ELSE 0)
    + (IF Truthy(token.telegram) THEN 15 ELSE 0)

MultiSymbolScore(sym_len) ==
    IF 3 <= sym_len /\ sym_len <= 5 THEN 20
    ELSE IF sym_len <= 7 THEN 15
    ELSE 0

EliteSymbolScore(sym_len) ==
    IF 3 <= sym_len /\ sym_len <= 5 THEN 20
    ELSE IF sym_len <= 7 THEN 15
    ELSE 5

HotThemes == {"dogs", "memes", "ai", "political"}

\* The theme loops of calculate_priority: `break` leaves the keyword loop
\* of one theme only, and the loop over themes goes on with the next theme.
RECURSIVE ThemeScore(_, _, _, _)
ThemeScore(themes, i, name_lower, symbol_lower) ==
    IF i > Len(themes) THEN 0
    ELSE (IF \E k \in 1..Len(themes[i].keywords) :
                KeywordHit(themes[i].keywords[k], name_lower, symbol_lower)
          THEN (IF themes[i].theme_name \in HotThemes THEN 35 ELSE 25)
          ELSE 0)
         + ThemeScore(themes, i + 1, name_lower, symbol_lower)

\* the sum of the components of MultiLaunchpadScanner.calculate_priority
MultiRawScore(criteria, token, t) ==
    TimingScore(t - token.timestamp)
    + MultiLiquidityScore(MultiLiq(token))
    + SocialScore(token)
    + MultiSymbolScore(Len(token.symbol))
    + ThemeScore(criteria.winning_themes, 1, Lower(token.name), Lower(token.symbol))
    + (IF IsAlpha(token.symbol) THEN 25 ELSE 0)
    + (IF token.creator_reputation = "elite" THEN criteria.elite_dev_bonus
       ELSE IF token.creator_reputation = "good" THEN criteria.good_dev_bonus
       ELSE 0)

\* the sum of the components of EliteTokenScanner.calculate_priority
EliteRawScore(criteria, token, t) ==
    TimingScore(t - token.timestamp)
    + EliteLiquidityScore(token.initial_liquidity)
    + SocialScore(token)
    + EliteSymbolScore(Len(token.symbol))
    + ThemeScore(criteria.winning_themes, 1, Lower(token.name), Lower(token.symbol))
    + (IF IsAlpha(token.symbol) THEN 25
       ELSE IF IsAlnum(Without(token.symbol, "$")) THEN 15
       ELSE 0)

MultiMaxScore == 250
EliteMaxScore == 200

\* A variant of MultiCalculatePriority without the final min(score, 250).
MultiCalculatePriority_unclamped(criteria, token, t) ==
    MultiRawScore(criteria, token, t)

\* MultiLaunchpadScanner.calculate_priority: return min(score, 250)
MultiCalculatePriority(criteria, token, t) ==
    Min(MultiRawScore(criteria, token, t), MultiMaxScore)

\* EliteTokenScanner.calculate_priority: return min(score, 200)
EliteCalculatePriority(criteria, token, t) ==
    Min(EliteRawScore(criteria, token, t), EliteMaxScore)


(***************************************************************************)
(* DeveloperReputationTracker                                              *)
(***************************************************************************)
\* the creator wallets of the model
Wallets == {"DevA", "DevB"}

\* update_dev_history calls per wallet in one run of the model
MaxLaunches == 5

EmptyHistory == [w \in {} |-> 0]

\* success_rate is the float successes / total; the code compares it with
\* 0.5 and 0.2 only, so it is kept as the pair <<successes, total>>
RateAbove(rate, num, den) == rate[1] * den > num * rate[2]
RateBelow(rate, num, den) == rate[1] * den < num * rate[2]

\* DeveloperReputationTracker.check_developer
CheckDeveloper(creator_wallet) ==
    IF creator_wallet \in elite_devs THEN "elite"
    ELSE IF creator_wallet \in blacklisted_devs THEN "bad"
    ELSE IF creator_wallet \in DOMAIN dev_history
    THEN LET success_rate == dev_history[creator_wallet].success_rate
         IN  IF RateAbove(success_rate, 1, 2) THEN "good"
             ELSE IF RateBelow(success_rate, 1, 5) THEN "bad"
             ELSE "unknown"
    ELSE "unknown"

\* DeveloperReputationTracker.add_known_good_dev
AddKnownGoodDev(wallet) ==
    /\ elite_devs' = elite_devs \cup {wallet}
    /\ UNCHANGED << blacklisted_devs, dev_history >>
    /\ UNCHANGED << scanner, now, storeVars, streamVars, scanVars, call,
                    escaped, probe, main, noted >>

\* DeveloperReputationTracker.add_known_bad_dev
AddKnownBadDev(wallet) ==
    /\ blacklisted_devs' = blacklisted_devs \cup {wallet}
    /\ UNCHANGED << elite_devs, dev_history >>
    /\ UNCHANGED << scanner, now, storeVars, streamVars, scanVars, call,
                    escaped, probe, main, noted >>

\* A variant of UpdateDevHistory without `if success:`.
UpdateDevHistory_alwaysSuccess(creator_wallet, success) ==
    LET history ==
            IF creator_wallet \in DOMAIN dev_history
            THEN dev_history[creator_wallet]
            ELSE [launches |-> <<>>, successes |-> 0, total |-> 0,
                  success_rate |-> <<0, 1>>]
        total     == history.total + 1
        successes == history.successes + 1
        updated   == [history EXCEPT !.total = total,
                                     !.successes = successes,
                                     !.success_rate = <<successes, total>>]
    IN  /\ history.total < MaxLaunches
        /\ dev_history' =
              [w \in DOMAIN dev_history \cup {creator_wallet} |->
                  IF w = creator_wallet THEN updated ELSE dev_history[w]]
        /\ UNCHANGED << elite_devs, blacklisted_devs >>
        /\ UNCHANGED << scanner, now, storeVars, streamVars, scanVars, call,
                        escaped, probe, main, noted >>

\* DeveloperReputationTracker.update_dev_history
UpdateDevHistory(creator_wallet, success) ==
    LET history ==
            IF creator_wallet \in DOMAIN dev_history
            THEN dev_history[creator_wallet]
            ELSE [launches |-> <<>>, successes |-> 0, total |-> 0,
                  success_rate |-> <<0, 1>>]
        total     == history.total + 1
        successes == history.successes + (IF success THEN 1 ELSE 0)
        updated   == [history EXCEPT !.total = total,
                                     !.successes = successes,
                                     !.success_rate = <<successes, total>>]
    IN  /\ history.total < MaxLaunches
        /\ dev_history' =
              [w \in DOMAIN dev_history \cup {creator_wallet} |->
                  IF w = creator_wallet THEN updated ELSE dev_history[w]]
        /\ UNCHANGED << elite_devs, blacklisted_devs >>
        /\ UNCHANGED << scanner, now, storeVars, streamVars, scanVars, call,
                        escaped, probe, main, noted >>


(***************************************************************************)
(* Token events and the adapters' parsers                                  *)
(*                                                                         *)
(* An Optional value is None (plain strings), NoText (character            *)
(* sequences) or 0 (numbers: every numeric field the parsers read defaults *)
(* to 0 and is tested for truthiness only).  An Optional record is a       *)
(* sequence of length 0 or 1.                                              *)
(***************************************************************************)
NoText == << "<None>" >>

\* dict.get(key, default)
Get(v, default) == IF v = None THEN default ELSE v
GetText(v, default) == IF v = NoText THEN default ELSE v

Unknown_ == <<"U","n","k","n","o","w","n">>
UNKNOWN_ == <<"U","N","K","N","O","W","N">>

\* PumpFunWebSocketMonitor.parse_token_data, at datetime.now() = t
ParseTokenData(scn, data, t) ==
    [ address            |-> Get(data.mint, ""),
      name               |-> GetText(data.name, Unknown_),
      symbol             |-> GetText(data.symbol, UNKNOWN_),
      source             |-> IF scn = "multi"
                             THEN <<"p","u","m","p","f","u","n">>
                             ELSE <<"p","u","m","p","f","u","n","_","w","e",
                                    "b","s","o","c","k","e","t">>,
      initial_liquidity  |-> IF data.initialBuy # 0 THEN data.initialBuy
                             ELSE data.vSolInBondingCurve,
      creator            |-> Get(data.traderPublicKey, ""),
      timestamp          |-> IF data.timestamp # 0
                             THEN data.timestamp \div 1000 ELSE t,
      twitter            |-> data.twitter,
      telegram           |-> data.telegram,
      creator_reputation |-> None ]

\* float(data.get('marketCapSol', 0)) raises (the number is a sequence of
\* length 1, anything else the empty sequence) and parse_token_data
\* returns None
ParseRaises(data) == Len(data.marketCapSol) # 1

\* PumpFunWebSocketMonitor.handle_message: the token it calls back with
HandleMessage(scn, data, t) ==
    IF data.json = "object" /\ (data.txType = "create" \/ data.mint # None)
       /\ ~ParseRaises(data)
    THEN << ParseTokenData(scn, data, t) >>
    ELSE << >>

\* the source tag of DexScreenerMonitor.parse_pair_data; dex_id is lowered
DexSource(dex_id) ==
    IF Contains(dex_id, <<"r","a","y","d","i","u","m">>)
    THEN <<"r","a","y","d","i","u","m">>
    ELSE IF Contains(dex_id, <<"o","r","c","a">>)
    THEN <<"o","r","c","a">>
    ELSE IF Contains(dex_id, <<"j","u","p","i","t","e","r">>)
    THEN <<"j","u","p","i","t","e","r">>
    ELSE <<"d","e","x","_">> \o dex_id

\* DexScreenerMonitor.parse_pair_data, at datetime.now() = t
ParsePairData(pair, t) ==
    [ address            |-> Get(pair.baseToken.address, ""),
      name               |-> GetText(pair.baseToken.name, Unknown_),
      symbol             |-> GetText(pair.baseToken.symbol, UNKNOWN_),
      source             |-> DexSource(Lower(pair.dexId)),
      initial_liquidity  |-> pair.liquidity_usd,
      creator            |-> "",
      timestamp          |-> IF pair.pairCreatedAt # 0
                             THEN pair.pairCreatedAt \div 1000 ELSE t,
      twitter            |-> None,
      telegram           |-> None,
      creator_reputation |-> None ]

\* BirdeyeMonitor.parse_token_data, at datetime.now() = t
ParseBirdeyeData(data, t) ==
    [ address            |-> Get(data.address, ""),
      name               |-> GetText(data.name, Unknown_),
      symbol             |-> GetText(data.symbol, UNKNOWN_),
      source             |-> <<"b","i","r","d","e","y","e">>,
      initial_liquidity  |-> data.liquidity,
      creator            |-> Get(data.creator, ""),
      timestamp          |-> IF data.creationTime # 0
                             THEN data.creationTime ELSE t,
      twitter            |-> None,
      telegram           |-> None,
      creator_reputation |-> None ]

(***************************************************************************)
(* The feeds of the model                                                  *)
(***************************************************************************)
T0 == 1000

MsgBonk ==
    [ json |-> "object", txType |-> "create", mint |-> "Addr1",
      name |-> <<"B","o","n","k">>, symbol |-> <<"B","O","N","K">>,
      initialBuy |-> 50, vSolInBondingCurve |-> 30,
      traderPublicKey |-> "DevA", timestamp |-> T0 * 1000,
      twitter |-> "https://x.com/bonk", telegram |-> None,
      marketCapSol |-> << 0 >> ]

MsgPepe ==
    [ json |-> "object", txType |-> None, mint |-> "Addr2",
      name |-> <<"P","e","p","e">>, symbol |-> <<"P","E","P","E">>,
      initialBuy |-> 0, vSolInBondingCurve |-> 60,
      traderPublicKey |-> "DevB", timestamp |-> 0,
      twitter |-> "https://x.com/pepe", telegram |-> "https://t.me/pepe",
      marketCapSol |-> << 0 >> ]

MsgTaco ==
    [ json |-> "object", txType |-> "create", mint |-> "Addr2",
      name |-> <<"T","a","c","o">>, symbol |-> <<"T","A","C","O","1">>,
      initialBuy |-> 50, vSolInBondingCurve |-> 0,
      traderPublicKey |-> None, timestamp |-> T0 * 1000,
      twitter |-> None, telegram |-> None,
      marketCapSol |-> << 0 >> ]

MsgTrade ==
    [ json |-> "object", txType |-> "buy", mint |-> None,
      name |-> NoText, symbol |-> NoText,
      initialBuy |-> 0, vSolInBondingCurve |-> 0,
      traderPublicKey |-> "DevB", timestamp |-> 0,
      twitter |-> None, telegram |-> None,
      marketCapSol |-> << 0 >> ]

\* a creation message without the key 'mint'
MsgNoMint == [MsgTaco EXCEPT !.mint = None]

StreamMessages == { MsgBonk, MsgPepe, MsgTaco, MsgTrade, MsgNoMint }

\* text that json.loads rejects
MsgGarbage == [MsgTrade EXCEPT !.json = "invalid"]

\* a JSON array
MsgArray == [MsgTrade EXCEPT !.json = "array"]

\* a creation message with "marketCapSol": null
MsgBadCap == [MsgBonk EXCEPT !.marketCapSol = << >>]

MalformedMessages == { MsgGarbage, MsgArray, MsgBadCap }

InboundMessages == StreamMessages \cup MalformedMessages

PairBonk ==
    [ pairAddress |-> "Pool1", dexId |-> <<"R","a","y","d","i","u","m">>,
      baseToken |-> [ address |-> "Addr1", name |-> <<"B","o","n","k">>,
                      symbol |-> <<"B","O","N","K">> ],
      liquidity_usd |-> 5000, pairCreatedAt |-> T0 * 1000 ]

PairDoge ==
    [ pairAddress |-> "Pool2", dexId |-> <<"m","e","t","e","o","r","a">>,
      baseToken |-> [ address |-> "Addr3", name |-> <<"D","o","g","e">>,
                      symbol |-> <<"D","O","G","E">> ],
      liquidity_usd |-> 5000, pairCreatedAt |-> T0 * 1000 ]

DexPairs == { PairBonk, PairDoge }

\* a second pool of the token of PairBonk, on Orca
PairBonkOrca ==
    [PairBonk EXCEPT !.pairAddress = "Pool3", !.dexId = <<"o","r","c","a">>]

\* the Meteora pair in a snapshot whose baseToken has no key 'address'
PairNoAddress == [PairDoge EXCEPT !.baseToken.address = None]

ItemDoge ==
    [ address |-> "Addr3", name |-> <<"D","o","g","e">>,
      symbol |-> <<"D","O","G","E">>, liquidity |-> 5000,
      creator |-> "DevB", creationTime |-> T0 ]

BirdeyeItems == { ItemDoge }

\* entries of one poll snapshot in the model
MaxSnapshot == 2

\* the sequences without repetition of at most n elements of S
RECURSIVE SeqsUpTo(_, _)
SeqsUpTo(S, n) ==
    IF n = 0 THEN { << >> }
    ELSE LET shorter == SeqsUpTo(S, n - 1)
         IN  shorter \cup
             { Append(q, x) : <<q, x>> \in
                 { p \in shorter \X S :
                     \A i \in 1..Len(p[1]) : p[1][i] # p[2] } }

\* what session.get does: it raises a transport error, or it returns a
\* response with a status and a body
DexResponses ==
    { [raises |-> FALSE, status |-> 200, pairs |-> q] :
        q \in SeqsUpTo(DexPairs, MaxSnapshot) }
    \cup { [raises |-> FALSE, status |-> 200, pairs |-> << PairNoAddress >>],
           [raises |-> FALSE, status |-> 200, pairs |-> << PairBonkOrca >>],
           [raises |-> FALSE, status |-> 503, pairs |-> << >>],
           [raises |-> FALSE, status |-> 429, pairs |-> << PairBonk >>],
           [raises |-> TRUE, status |-> 0, pairs |-> << >>] }

BirdeyeResponses ==
    { [raises |-> FALSE, status |-> 200, items |-> q] :
        q \in SeqsUpTo(BirdeyeItems, MaxSnapshot) }
    \cup { [raises |-> FALSE, status |-> 503, items |-> << >>],
           [raises |-> FALSE, status |-> 429, items |-> << ItemDoge >>],
           [raises |-> TRUE, status |-> 0, items |-> << >>] }

\* the clock readings of the model
Times == { T0, T0 + 700 }


(***************************************************************************)
(* The per-event pipeline: on_new_token and send_message                   *)
(***************************************************************************)
Tasks == {"stream", "scan"}

\* the two classes of exception a step can raise
Exceptions == {"TelegramError", "Exception"}

\* send_message: `except TelegramError`
SendMessageCatches(exc) == exc = "TelegramError"

\* on_new_token: `except Exception`
\* A variant of OnNewTokenCatches: `except TelegramError` in on_new_token.
OnNewTokenCatches_onlyTelegram(exc) == exc = "TelegramError"

OnNewTokenCatches(exc) == exc \in {"TelegramError", "Exception"}

\* The steps of on_new_token in the order of the code; an event leaves the
\* pipeline at the step that returns, or reaches the notifier.
StepDedup      == 1
StepReputation == 2
StepSource     == 3
StepFilter     == 4
StepScorer     == 5
StepNotify     == 6

\* A variant of IsDuplicate without the check.
IsDuplicate_never(seen, token) == FALSE

\* `if token.address in self.seen_tokens: return`
IsDuplicate(seen, token) == token.address \in seen

\* A variant of SourceAllowed without the source filter.
SourceAllowed_any(allowed, source) == TRUE

\* `if allowed and token.source not in allowed: return`, negated
SourceAllowed(allowed, source) == allowed = {} \/ source \in allowed

Verdict(stage, outcome, token, priority) ==
    [stage |-> stage, outcome |-> outcome, token |-> token, priority |-> priority]

\* A variant of MultiGate without the comparison of the priority with
\* min_priority_score.
MultiGate_noThreshold(token, t) ==
    LET criteria   == MultiCriteria
        reputation == IF Truthy(token.creator)
                      THEN CheckDeveloper(token.creator)
                      ELSE token.creator_reputation
        annotated  == [token EXCEPT !.creator_reputation = reputation]
        priority   == MultiCalculatePriority(criteria, annotated, t)
    IN  IF IsDuplicate(seen_tokens, token)
        THEN Verdict(StepDedup, "duplicate", token, 0)
        ELSE IF Truthy(token.creator) /\ criteria.block_bad_devs
                /\ reputation = "bad"
        THEN Verdict(StepReputation, "bad_dev", annotated, 0)
        ELSE IF ~SourceAllowed(criteria.allowed_sources, annotated.source)
        THEN Verdict(StepSource, "source", annotated, 0)
        ELSE IF ~MultiMeetsCriteria(criteria, annotated, t).passes
        THEN Verdict(StepFilter, "rejected", annotated, 0)
        ELSE Verdict(StepNotify, "dispatch", annotated, priority)

\* MultiLaunchpadScanner.on_new_token from its first line to the call of
\* send_message, at datetime.now() = t
MultiGate(token, t) ==
    LET criteria   == MultiCriteria
        reputation == IF Truthy(token.creator)
                      THEN CheckDeveloper(token.creator)
                      ELSE token.creator_reputation
        annotated  == [token EXCEPT !.creator_reputation = reputation]
        priority   == MultiCalculatePriority(criteria, annotated, t)
    IN  IF IsDuplicate(seen_tokens, token)
        THEN Verdict(StepDedup, "duplicate", token, 0)
        ELSE IF Truthy(token.creator) /\ criteria.block_bad_devs
                /\ reputation = "bad"
        THEN Verdict(StepReputation, "bad_dev", annotated, 0)
        ELSE IF ~SourceAllowed(criteria.allowed_sources, annotated.source)
        THEN Verdict(StepSource, "source", annotated, 0)
        ELSE IF ~MultiMeetsCriteria(criteria, annotated, t).passes
        THEN Verdict(StepFilter, "rejected", annotated, 0)
        ELSE IF priority < criteria.min_priority_score
        THEN Verdict(StepScorer, "low_priority", annotated, priority)
        ELSE Verdict(StepNotify, "dispatch", annotated, priority)

\* EliteTokenScanner.on_new_token from its first line to the call of
\* send_message, at datetime.now() = t
EliteGate(token, t) ==
    LET criteria == EliteCriteria
        priority == EliteCalculatePriority(criteria, token, t)
    IN  IF IsDuplicate(seen_tokens, token)
        THEN Verdict(StepDedup, "duplicate", token, 0)
        ELSE IF ~EliteMeetsCriteria(criteria, token, t).passes
        THEN Verdict(StepFilter, "rejected", token, 0)
        ELSE IF priority < criteria.min_priority_score
        THEN Verdict(StepScorer, "low_priority", token, priority)
        ELSE Verdict(StepNotify, "dispatch", token, priority)

Gate(scn, token, t) ==
    IF scn = "multi" THEN MultiGate(token, t) ELSE EliteGate(token, t)

\* A step of the pipeline may raise (a field of an unexpected type, a
\* formatting error): fault names the step that raises if it is reached.
Faults == {"none", "reputation", "filter", "scorer", "format"}

FaultStep(fault) ==
    CASE fault = "reputation" -> StepReputation
      [] fault = "filter"     -> StepFilter
      [] fault = "scorer"     -> StepScorer
      [] fault = "format"     -> StepNotify
      [] OTHER                -> 0

Raises(scn, token, verdict, fault) ==
    /\ fault # "none"
    /\ verdict.stage >= FaultStep(fault)
    /\ fault = "reputation" => (scn = "multi" /\ Truthy(token.creator))

\* How a call of on_new_token ends its first run: it returns, it suspends
\* in `await self.send_message(...)`, or an exception leaves it.
OutcomeOf(verdict, token, fault) ==
    IF Raises(scanner, token, verdict, fault)
    THEN (IF OnNewTokenCatches("Exception") THEN "return" ELSE "raise")
    ELSE IF verdict.outcome = "dispatch" THEN "await"
    ELSE "return"

\* A variant of OnNewToken that marks the address as soon as the event is
\* observed.
OnNewToken_marksAtObservation(T, token, fault) ==
    LET verdict == Gate(scanner, token, now)
        outcome == OutcomeOf(verdict, token, fault)
    IN  /\ call' = IF outcome = "await"
                   THEN [call EXCEPT ![T] =
                           << [token |-> verdict.token,
                               priority |-> verdict.priority] >>]
                   ELSE call
        /\ alerted' = IF outcome = "await"
                      THEN alerted \cup {token.address}
                      ELSE alerted
        /\ escaped' = (escaped \/ outcome = "raise")
        /\ seen_tokens' = seen_tokens \cup {token.address}
        /\ UNCHANGED evicted

\* on_new_token(token) called by task T, up to its return or suspension
OnNewToken(T, token, fault) ==
    LET verdict == Gate(scanner, token, now)
        outcome == OutcomeOf(verdict, token, fault)
    IN  /\ call' = IF outcome = "await"
                   THEN [call EXCEPT ![T] =
                           << [token |-> verdict.token,
                               priority |-> verdict.priority] >>]
                   ELSE call
        /\ alerted' = IF outcome = "await"
                      THEN alerted \cup {token.address}
                      ELSE alerted
        /\ escaped' = (escaped \/ outcome = "raise")
        /\ UNCHANGED << seen_tokens, evicted >>

\* what bot.send_message can do: return, or raise one of the exceptions
NotifierResults == {"ok"} \cup Exceptions

\* How the awaited send_message ends for on_new_token: "marked" when
\* send_message returns and seen_tokens.add runs, "logged" when on_new_token
\* catches what send_message let through, "raise" when nothing catches it.
Completion(result) ==
    IF result = "ok" \/ SendMessageCatches(result) THEN "marked"
    ELSE IF OnNewTokenCatches(result) THEN "logged"
    ELSE "raise"

(***************************************************************************)
(* PumpFunWebSocketMonitor.connect_and_subscribe                           *)
(***************************************************************************)
reconnect_delay == 5
max_reconnect_delay == 60

\* consecutive failed attempts in one run of the model
MaxSleeps == 6

\* A variant of Connect that resets the delay as soon as the connection
\* is open.
Connect_resetsDelay ==
    /\ wsState = "connecting"
    /\ wsState' = "subscribing"
    /\ current_delay' = reconnect_delay
    /\ UNCHANGED << scanner, now, trackerVars, storeVars, scanVars, call,
                    escaped, sleeps, probe, main, noted >>

\* websockets.connect(...) opens the connection
Connect ==
    /\ wsState = "connecting"
    /\ wsState' = "subscribing"
    /\ UNCHANGED << scanner, now, trackerVars, storeVars, scanVars, call,
                    escaped, current_delay, sleeps, probe, main, noted >>

\* websockets.connect(...) raises
ConnectFails ==
    /\ wsState = "connecting"
    /\ Len(sleeps) < MaxSleeps
    /\ wsState' = "backoff"
    /\ UNCHANGED << scanner, now, trackerVars, storeVars, scanVars, call,
                    escaped, current_delay, sleeps, probe, main, noted >>

\* A variant of Subscribe without `current_delay = self.reconnect_delay`.
Subscribe_keepsDelay ==
    /\ wsState = "subscribing"
    /\ wsState' = "streaming"
    /\ sleeps' = << >>
    /\ UNCHANGED << scanner, now, trackerVars, storeVars, scanVars, call,
                    escaped, current_delay, probe, main, noted >>

\* websocket.send(subscribe_message); current_delay = self.reconnect_delay
Subscribe ==
    /\ wsState = "subscribing"
    /\ wsState' = "streaming"
    /\ current_delay' = reconnect_delay
    /\ sleeps' = << >>
    /\ UNCHANGED << scanner, now, trackerVars, storeVars, scanVars, call,
                    escaped, probe, main, noted >>

\* websocket.send(subscribe_message) raises
SubscribeFails ==
    /\ wsState = "subscribing"
    /\ Len(sleeps) < MaxSleeps
    /\ wsState' = "backoff"
    /\ UNCHANGED << scanner, now, trackerVars, storeVars, scanVars, call,
                    escaped, current_delay, sleeps, probe, main, noted >>

\* A variant of StreamError without the `except Exception` around the
\* connection: the error leaves connect_and_subscribe.
StreamError_exits ==
    /\ wsState = "streaming"
    /\ call["stream"] = << >>
    /\ wsState' = "exited"
    /\ UNCHANGED << scanner, now, trackerVars, storeVars, scanVars, call,
                    escaped, current_delay, sleeps, probe, main, noted >>

\* `async for message in websocket` ends: the connection closed or raised
StreamError ==
    /\ wsState = "streaming"
    /\ call["stream"] = << >>
    /\ wsState' = "backoff"
    /\ UNCHANGED << scanner, now, trackerVars, storeVars, scanVars, call,
                    escaped, current_delay, sleeps, probe, main, noted >>

\* A variant of BackoffSleep that doubles the delay without the cap.
BackoffSleep_uncapped ==
    /\ wsState = "backoff"
    /\ sleeps' = Append(sleeps, current_delay)
    /\ current_delay' = current_delay * 2
    /\ wsState' = "connecting"
    /\ UNCHANGED << scanner, now, trackerVars, storeVars, scanVars, call,
                    escaped, probe, main, noted >>

\* await asyncio.sleep(current_delay); current_delay = min(current_delay * 2, max)
BackoffSleep ==
    /\ wsState = "backoff"
    /\ sleeps' = Append(sleeps, current_delay)
    /\ current_delay' = Min(current_delay * 2, max_reconnect_delay)
    /\ wsState' = "connecting"
    /\ UNCHANGED << scanner, now, trackerVars, storeVars, scanVars, call,
                    escaped, probe, main, noted >>

\* A variant of MessageLoopCatches without the try/except inside the
\* `async for` loop.
MessageLoopCatches_nothing(exc) == FALSE

\* the except clauses around json.loads and handle_message, inside the
\* `async for` loop
MessageLoopCatches(exc) == exc \in {"JSONDecodeError", "Exception"}

\* json.loads(message) raises
JsonLoadsRaises(data) == data.json = "invalid"

\* a message that is no JSON object, or whose fields parse_token_data
\* cannot convert
Unexpected(data) ==
    \/ data.json # "object"
    \/ (data.txType = "create" \/ data.mint # None) /\ ParseRaises(data)

\* logger.error(...) of a failure that is skipped, when it is observed
Note(tag) ==
    noted' = IF noted.on THEN [noted EXCEPT !.tags = @ \cup {tag}] ELSE noted

\* `await self.callback(token)` of a poll adapter for the entry `id`, when
\* it is observed
NoteCallback(adapter, id) ==
    noted' = IF noted.on
             THEN [noted EXCEPT !.callbacks = Append(@, << adapter, id >>)]
             ELSE noted

\* `async for message in websocket` takes its next message when the
\* connection is open and `await self.handle_message(data)` has returned
StreamCanReceive == wsState = "streaming" /\ call["stream"] = << >>

\* A variant of StreamReceiveOf whose callback records the creator of an
\* event that it dispatches as a known good developer.
StreamReceiveOf_recordsCreator(data, fault) ==
    /\ StreamCanReceive
    /\ ~JsonLoadsRaises(data)
    /\ LET token == HandleMessage(scanner, data, now)
       IN  /\ token # << >>
           /\ OnNewToken("stream", token[1], fault)
           /\ elite_devs' =
                 IF Gate(scanner, token[1], now).outcome = "dispatch"
                 THEN elite_devs \cup {token[1].creator}
                 ELSE elite_devs
    /\ UNCHANGED << scanner, now, blacklisted_devs, dev_history, streamVars,
                    scanVars, probe, main, noted >>

\* One message of `async for message in websocket`: json.loads,
\* handle_message, and the callback on_new_token up to its return or its
\* suspension in send_message.
\* one round of the `async for` body on the message `data`
StreamReceiveOf(data, fault) ==
    /\ StreamCanReceive
    /\ IF JsonLoadsRaises(data)
       THEN /\ IF MessageLoopCatches("JSONDecodeError")
               THEN UNCHANGED streamVars
               ELSE /\ wsState' = "backoff"
                    /\ UNCHANGED << current_delay, sleeps >>
            /\ Note("dropped")
            /\ UNCHANGED << call, escaped, storeVars >>
       ELSE LET token == HandleMessage(scanner, data, now)
            IN  /\ IF token # << >>
                   THEN /\ OnNewToken("stream", token[1], fault)
                        /\ UNCHANGED noted
                   ELSE /\ UNCHANGED << call, escaped, storeVars >>
                        /\ IF Unexpected(data) THEN Note("dropped")
                           ELSE UNCHANGED noted
                /\ UNCHANGED streamVars
    /\ UNCHANGED << scanner, now, trackerVars, scanVars, probe, main >>

StreamReceive ==
    \E data \in InboundMessages, fault \in Faults :
        StreamReceiveOf(data, fault)

(***************************************************************************)
(* scan_other_sources: DexScreenerMonitor and BirdeyeMonitor               *)
(***************************************************************************)
\* pairs[:50]
PageLimit == 50
Take(q, n) == SubSeq(q, 1, Min(n, Len(q)))

\* the position after the loop at pc
AfterLoop(pc) == IF pc = "dex_loop" THEN "bird_get" ELSE "dex_get"

\* session.get(...) raised, or the response is not a 200
FetchFailed(r) == r.raises \/ r.status # 200

\* A variant of DexQueue without `if response.status == 200`.
DexQueue_anyStatus(r) ==
    IF ~r.raises THEN Take(r.pairs, PageLimit) ELSE << >>

\* the pairs scan_new_pairs loops over
DexQueue(r) ==
    IF ~r.raises /\ r.status = 200 THEN Take(r.pairs, PageLimit) ELSE << >>

\* the items scan_new_tokens loops over
BirdeyeQueue(r) ==
    IF ~r.raises /\ r.status = 200 THEN r.items ELSE << >>

\* DexScreenerMonitor.scan_new_pairs up to the loop over the pairs (after
\* asyncio.sleep(30) of the previous round)
DexFetchOf(r) ==
    /\ scanPc = "dex_get"
    /\ LET pairs == DexQueue(r)
       IN  IF pairs # << >>
           THEN scanPc' = "dex_loop" /\ scanQueue' = pairs
           ELSE scanPc' = "bird_get" /\ scanQueue' = << >>
    /\ IF FetchFailed(r) THEN Note("dex_failed") ELSE UNCHANGED noted
    /\ UNCHANGED << scanner, now, trackerVars, storeVars, streamVars, call,
                    escaped, seen_pairs, birdeye_seen, probe, main >>

DexFetch == \E r \in DexResponses : DexFetchOf(r)

\* BirdeyeMonitor.scan_new_tokens up to the loop over the items (after
\* asyncio.sleep(2))
BirdeyeFetchOf(r) ==
    /\ scanPc = "bird_get"
    /\ LET items == BirdeyeQueue(r)
       IN  IF items # << >>
           THEN scanPc' = "bird_loop" /\ scanQueue' = items
           ELSE scanPc' = "dex_get" /\ scanQueue' = << >>
    /\ IF FetchFailed(r) THEN Note("bird_failed") ELSE UNCHANGED noted
    /\ UNCHANGED << scanner, now, trackerVars, storeVars, streamVars, call,
                    escaped, seen_pairs, birdeye_seen, probe, main >>

BirdeyeFetch == \E r \in BirdeyeResponses : BirdeyeFetchOf(r)

\* The rest of an iteration of either loop once the entry is known to be
\* new: the callback, then the next entry, the end of the loop, or the
\* `except` of the scan method when the callback raised.
\* the for loop of a monitor takes its next entry when
\* `await self.callback(token)` has returned
ScanCanLoop(pc) == scanPc = pc /\ call["scan"] = << >> /\ scanQueue # << >>

ScanCallback(token, fault) ==
    /\ OnNewToken("scan", token, fault)
    /\ IF escaped'
       THEN scanQueue' = << >> /\ scanPc' = AfterLoop(scanPc)
       ELSE /\ scanQueue' = Tail(scanQueue)
            /\ scanPc' = IF Tail(scanQueue) = << >> /\ call'["scan"] = << >>
                         THEN AfterLoop(scanPc) ELSE scanPc

ScanSkip ==
    /\ scanQueue' = Tail(scanQueue)
    /\ scanPc' = IF Tail(scanQueue) = << >> THEN AfterLoop(scanPc) ELSE scanPc
    /\ UNCHANGED << call, escaped, storeVars >>

\* A variant of DexLoop without `pair_id not in self.seen_pairs`.
DexLoop_noSeenCheck ==
    /\ ScanCanLoop("dex_loop")
    /\ \E fault \in Faults :
          LET pair    == Head(scanQueue)
              pair_id == pair.pairAddress
          IN  IF Truthy(pair_id)
              THEN /\ seen_pairs' = seen_pairs \cup {pair_id}
                   /\ ScanCallback(ParsePairData(pair, now), fault)
                   /\ NoteCallback("dex", pair_id)
              ELSE ScanSkip /\ UNCHANGED << seen_pairs, noted >>
    /\ UNCHANGED << scanner, now, trackerVars, streamVars, birdeye_seen,
                    probe, main >>

\* one iteration of `for pair in pairs[:50]`
DexLoop ==
    /\ ScanCanLoop("dex_loop")
    /\ \E fault \in Faults :
          LET pair    == Head(scanQueue)
              pair_id == pair.pairAddress
          IN  IF Truthy(pair_id) /\ pair_id \notin seen_pairs
              THEN /\ seen_pairs' = seen_pairs \cup {pair_id}
                   /\ ScanCallback(ParsePairData(pair, now), fault)
                   /\ NoteCallback("dex", pair_id)
              ELSE ScanSkip /\ UNCHANGED << seen_pairs, noted >>
    /\ UNCHANGED << scanner, now, trackerVars, streamVars, birdeye_seen,
                    probe, main >>

\* one iteration of `for item in items`
BirdeyeLoop ==
    /\ ScanCanLoop("bird_loop")
    /\ \E fault \in Faults :
          LET item          == Head(scanQueue)
              token_address == item.address
          IN  IF Truthy(token_address) /\ token_address \notin birdeye_seen
              THEN /\ birdeye_seen' = birdeye_seen \cup {token_address}
                   /\ ScanCallback(ParseBirdeyeData(item, now), fault)
                   /\ NoteCallback("birdeye", token_address)
              ELSE ScanSkip /\ UNCHANGED << birdeye_seen, noted >>
    /\ UNCHANGED << scanner, now, trackerVars, streamVars, seen_pairs,
                    probe, main >>

(***************************************************************************)
(* The notifier, the cleanup task and the clock                            *)
(***************************************************************************)
\* bot.send_message ends for the task that awaits it: the rest of
\* send_message and of on_new_token, and the return to the adapter
NotifierReturnsOf(T, result) ==
        /\ call[T] # << >>
        /\ call' = [call EXCEPT ![T] = << >>]
        /\ seen_tokens' = IF Completion(result) = "marked"
                          THEN seen_tokens \cup {call[T][1].token.address}
                          ELSE seen_tokens
        /\ escaped' = (escaped \/ Completion(result) = "raise")
        /\ IF T = "scan"
           THEN IF Completion(result) = "raise"
                THEN scanQueue' = << >> /\ scanPc' = AfterLoop(scanPc)
                ELSE /\ scanQueue' = scanQueue
                     /\ scanPc' = IF scanQueue = << >>
                                  THEN AfterLoop(scanPc) ELSE scanPc
           ELSE UNCHANGED << scanQueue, scanPc >>
        /\ UNCHANGED << scanner, now, trackerVars, streamVars, seen_pairs,
                        birdeye_seen, alerted, evicted, probe, main, noted >>

NotifierReturns ==
    \E T \in Tasks, result \in NotifierResults : NotifierReturnsOf(T, result)

\* the ceilings of cleanup_task (1000 and 500 in the code), scaled down
MultiCeiling == 2
EliteCeiling == 1
Ceiling(scn) == IF scn = "multi" THEN MultiCeiling ELSE EliteCeiling

\* A variant of CleanupTask that evicts one address instead of all.
CleanupTask_evictsOne ==
    /\ main.pc = "running"
    /\ IF Cardinality(seen_tokens) > Ceiling(scanner)
       THEN /\ seen_tokens' = seen_tokens \ {CHOOSE a \in seen_tokens : TRUE}
            /\ alerted' = alerted /\ evicted' = TRUE
       ELSE UNCHANGED << seen_tokens, alerted, evicted >>
    /\ UNCHANGED << scanner, now, trackerVars, streamVars, scanVars, call,
                    escaped, probe, main, noted >>

\* A variant of CleanupTask that clears at the ceiling already (>=).
CleanupTask_atCeiling ==
    /\ main.pc = "running"
    /\ IF Cardinality(seen_tokens) >= Ceiling(scanner)
       THEN seen_tokens' = {} /\ alerted' = {} /\ evicted' = TRUE
       ELSE UNCHANGED << seen_tokens, alerted, evicted >>
    /\ UNCHANGED << scanner, now, trackerVars, streamVars, scanVars, call,
                    escaped, probe, main, noted >>

\* A variant of CleanupTask that clears the seen-sets of the poll adapters
\* together with the store.
CleanupTask_clearsAdapters ==
    /\ main.pc = "running"
    /\ IF Cardinality(seen_tokens) > Ceiling(scanner)
       THEN /\ seen_tokens' = {} /\ alerted' = {} /\ evicted' = TRUE
            /\ seen_pairs' = {} /\ birdeye_seen' = {}
       ELSE UNCHANGED << seen_tokens, alerted, evicted, seen_pairs,
                         birdeye_seen >>
    /\ UNCHANGED << scanner, now, trackerVars, streamVars, scanPc,
                    scanQueue, call, escaped, probe, main, noted >>

\* cleanup_task after its asyncio.sleep(600)
CleanupTask ==
    /\ main.pc = "running"
    /\ IF Cardinality(seen_tokens) > Ceiling(scanner)
       THEN seen_tokens' = {} /\ alerted' = {} /\ evicted' = TRUE
       ELSE UNCHANGED << seen_tokens, alerted, evicted >>
    /\ UNCHANGED << scanner, now, trackerVars, streamVars, scanVars, call,
                    escaped, probe, main, noted >>

\* time passes: datetime.now() moves on to a later reading of S
Clock(S) ==
    /\ \E t \in S : t > now /\ now' = t
    /\ UNCHANGED << scanner, trackerVars, storeVars, streamVars, scanVars,
                    call, escaped, probe, main, noted >>

Tick == Clock(Times)

(***************************************************************************)
(* The scanner: MultiLaunchpadScanner.run or EliteTokenScanner.run         *)
(***************************************************************************)
\* the sets the operator has written into DeveloperReputationTracker.__init__
ConfiguredDevs == { << {}, {} >>, << {"DevB"}, {"DevA", ""} >> }

\* main() after scanner.start() has returned, in scanner.run()
MainRunning ==
    [ pc            |-> "running",
      env_token     |-> TRUE,     \* TELEGRAM_BOT_TOKEN is in the environment
      env_chat      |-> TRUE,     \* TELEGRAM_CHAT_ID is in the environment
      diagnostic    |-> None,     \* what print(...) asked to set
      constructed   |-> TRUE,     \* the scanner object exists
      startup_calls |-> 1,        \* bot.send_message calls made by start()
      cleanup       |-> "sleeping", \* cleanup_task: off, sleeping, cancelled
      exit_code     |-> << >> ]   \* the exit status, once the process ended

\* main() at its first statement, in an environment that has or lacks each
\* of the two variables
MainAtEntry ==
    { [ pc |-> "env", env_token |-> token, env_chat |-> chat,
        diagnostic |-> None, constructed |-> FALSE, startup_calls |-> 0,
        cleanup |-> "off", exit_code |-> << >> ] : token \in BOOLEAN, chat \in BOOLEAN }

Unobserved == [on |-> FALSE, tags |-> {}, callbacks |-> << >>]
Observed == [on |-> TRUE, tags |-> {}, callbacks |-> << >>]

NoProbe == [token |-> << >>, criteria |-> << >>,
            first |-> << >>, second |-> << >>]

InitScanner ==
    /\ scanner \in {"multi", "elite"}
    /\ now = T0
    /\ seen_tokens = {}
    /\ \E devs \in ConfiguredDevs :
          /\ scanner = "elite" => devs = << {}, {} >>
          /\ elite_devs = devs[1]
          /\ blacklisted_devs = devs[2]
    /\ dev_history = EmptyHistory
    /\ wsState = "connecting"
    /\ current_delay = reconnect_delay
    /\ scanPc = IF scanner = "multi" THEN "dex_get" ELSE "off"
    /\ scanQueue = << >>
    /\ seen_pairs = {}
    /\ birdeye_seen = {}
    /\ call = [T \in Tasks |-> << >>]
    /\ alerted = {}
    /\ evicted = FALSE
    /\ escaped = FALSE
    /\ sleeps = << >>
    /\ main = MainRunning

Init == InitScanner /\ probe = NoProbe /\ noted = Unobserved

\* the same, with the observer of skipped failures switched on
InitObserved == InitScanner /\ probe = NoProbe /\ noted = Observed

Next ==
    \/ Connect
    \/ Subscribe
    \/ StreamReceive
    \/ StreamError
    \/ BackoffSleep
    \/ DexFetch
    \/ DexLoop
    \/ BirdeyeFetch
    \/ BirdeyeLoop
    \/ NotifierReturns
    \/ CleanupTask
    \/ Tick

Spec == Init /\ [][Next]_vars


(***************************************************************************)
(* Claims about the scanner (specification Spec)                           *)
(***************************************************************************)
InFlight(T) == call[T] # << >>
Dispatched(T) == call[T] = << >> /\ call'[T] # << >>
Completed(T) == call[T] # << >> /\ call'[T] = << >>

\* C1: in MultiLaunchpadScanner two callbacks for the same address never
\* both get past the `address in seen_tokens` check before the address is
\* added, so no address has two notifier calls between two clearings.
C1_AtMostOnceDispatch ==
    scanner = "multi" =>
        ~ ( /\ InFlight("stream")
            /\ InFlight("scan")
            /\ call["stream"][1].token.address = call["scan"][1].token.address )

\* C3 as stated: once more than the ceiling of distinct addresses have been
\* marked seen, the Dedup Store is empty again.
C3_EmptyOnceCeilingCrossed ==
    Cardinality(seen_tokens) <= Ceiling(scanner)

\* C3 as amended: the eviction check of cleanup_task that follows the mark
\* which crossed the ceiling empties the Dedup Store, and after it every
\* address that was in the store passes the dedup gate as new.
C3_EvictionAtNextCheck ==
    [][ (CleanupTask /\ Cardinality(seen_tokens) > Ceiling(scanner)) =>
            /\ seen_tokens' = {}
            /\ \A data \in StreamMessages :
                  LET token == ParseTokenData(scanner, data, now)
                  IN  IsDuplicate(seen_tokens, token) =>
                         /\ Gate(scanner, token, now).outcome = "duplicate"
                         /\ ~IsDuplicate(seen_tokens', token)
      ]_vars

\* C3 witness: the store was cleared and an address was marked after it
C3_Witness == evicted /\ seen_tokens # {}

\* the developer and source checks of MultiLaunchpadScanner.on_new_token
DevBlocked(token) ==
    /\ Truthy(token.creator)
    /\ MultiCriteria.block_bad_devs
    /\ CheckDeveloper(token.creator) = "bad"

SourceBlocked(token) ==
    /\ MultiCriteria.allowed_sources # {}
    /\ token.source \notin MultiCriteria.allowed_sources

\* C7: every alert call of the notifier is made for an event whose address
\* was not in the Dedup Store, that the developer and source checks did not
\* block, that passed meets_criteria and whose priority is at least
\* min_priority_score, all at the moment of the call.
C7_DispatchGate ==
    [][ \A T \in Tasks : Dispatched(T) =>
          LET token == call'[T][1].token
          IN  /\ ~IsDuplicate(seen_tokens, token)
              /\ scanner = "multi" =>
                    /\ ~DevBlocked(token)
                    /\ ~SourceBlocked(token)
                    /\ MultiMeetsCriteria(MultiCriteria, token, now).passes
                    /\ MultiCalculatePriority(MultiCriteria, token, now)
                          >= MultiCriteria.min_priority_score
              /\ scanner = "elite" =>
                    /\ EliteMeetsCriteria(EliteCriteria, token, now).passes
                    /\ EliteCalculatePriority(EliteCriteria, token, now)
                          >= EliteCriteria.min_priority_score
      ]_vars

\* C7 witness: a notifier call is in flight for each of the two scanners'
\* kinds of producer
C7_Witness == scanner = "multi" /\ InFlight("scan") /\ call["scan"][1].priority >= 150

\* C8: when the notifier call fails, in whatever way, the address of its
\* event is in the Dedup Store once on_new_token is over.
C8_FailureStillMarksSeen ==
    [][ \A T \in Tasks : Completed(T) =>
            call[T][1].token.address \in seen_tokens' ]_vars

\* C9: no exception leaves on_new_token, and when the notifier call of a
\* task ends, however it ends, the adapter that made the callback goes on
\* where it was: the stream stays connected with its delay unchanged and
\* the scan loop keeps the entries it has not looked at.
C9_ExceptionIsolation ==
    [][ /\ ~escaped'
        /\ \A T \in Tasks : Completed(T) =>
              /\ wsState' = wsState
              /\ current_delay' = current_delay
              /\ scanQueue' = scanQueue
              /\ scanPc' = IF T = "scan" /\ scanQueue = << >>
                           THEN AfterLoop(scanPc) ELSE scanPc
      ]_vars

\* C9 witness: a notifier call has ended in an exception that on_new_token
\* caught (its address was alerted and is not marked), with entries of the
\* scan loop still to come and the stream connected
C9_Witness ==
    /\ ~InFlight("stream") /\ ~InFlight("scan")
    /\ alerted \ seen_tokens # {}
    /\ wsState = "streaming"
    /\ scanPc = "dex_loop" /\ scanQueue # << >>

\* C10: while a notifier call is pending, every adapter can take its next
\* step: the stream adapter its next message, the poll loop its next entry.
C10_NotifierDoesNotStall ==
    /\ (InFlight("stream") /\ wsState = "streaming") => StreamCanReceive
    /\ (InFlight("scan") /\ scanQueue # << >>) => ScanCanLoop(scanPc)


(***************************************************************************)
(* The stream adapter with failing connections (specification SpecStream)  *)
(***************************************************************************)
NextStream ==
    \/ Connect
    \/ ConnectFails
    \/ Subscribe
    \/ SubscribeFails
    \/ StreamError
    \/ BackoffSleep
    \/ StreamReceive
    \/ NotifierReturns

SpecStream == InitObserved /\ [][NextStream]_vars

\* C2: the delays slept after consecutive failed attempts are 5, 10, 20,
\* 40 and then 60 for every further one; sleeps holds the delays slept
\* since the last successful connect-and-subscribe, so the first delay
\* slept after a success is 5 again.
C2_BackoffProgression ==
    \A i \in DOMAIN sleeps :
        sleeps[i] = IF i <= 4 THEN << 5, 10, 20, 40 >>[i] ELSE 60

\* C2 witness: messages were streamed and marked, then the connection was
\* lost and six attempts failed in a row
C2_Witness == seen_tokens # {} /\ Len(sleeps) = 6 /\ sleeps[6] = 60

\* C12: a malformed stream message is dropped in place. The round of the
\* receive loop that takes a message that is not JSON, is not a JSON
\* object, or cannot be parsed leaves the connection streaming and the
\* backoff delay as it was, makes no callback (no call starts, nothing is
\* marked or alerted), and leaves the loop ready for the next message.
C12_MalformedDroppedInPlace ==
    [][\A data \in MalformedMessages, fault \in Faults :
          StreamReceiveOf(data, fault) =>
              /\ wsState' = "streaming"
              /\ current_delay' = current_delay
              /\ sleeps' = sleeps
              /\ call' = call
              /\ seen_tokens' = seen_tokens
              /\ alerted' = alerted
              /\ escaped' = escaped
              /\ StreamCanReceive']_vars

\* C12 witness: a malformed message was dropped, and the first alert of
\* the run is being sent for a message received after it
C12_Witness ==
    /\ "dropped" \in noted.tags
    /\ wsState = "streaming"
    /\ call["stream"] # << >>
    /\ Cardinality(alerted) = 1

\* asyncio.sleep(current_delay) returns when its timer fires: the sleep
\* of the reconnect loop is not postponed forever
SpecStreamFair == SpecStream /\ WF_vars(BackoffSleep)

\* the positions of the `while True` loop of connect_and_subscribe
LoopStates == { "connecting", "subscribing", "streaming", "backoff" }

\* the position after a step of the loop that leaves `from`
LoopSuccessors(from) ==
    CASE from = "connecting"  -> { "subscribing", "backoff" }
      [] from = "subscribing" -> { "streaming", "backoff" }
      [] from = "streaming"   -> { "backoff" }
      [] from = "backoff"     -> { "connecting" }
      [] OTHER                -> { }

\* C11: the stream adapter never stops by itself. The loop is always at
\* one of its four positions (it has never exited); a step that leaves
\* connecting, subscribing or streaming without reaching the next position
\* (a connection, send or receive error, or the server closing) reaches
\* backoff; and backoff always leads to a new connection attempt.
C11_NeverStops ==
    /\ [](wsState \in LoopStates)
    /\ [][wsState' # wsState => wsState' \in LoopSuccessors(wsState)]_vars
    /\ (wsState = "backoff") ~> (wsState = "connecting")

\* C11 witness: a connection that streamed was lost, a reconnection
\* attempt failed too, and the loop is connecting once more
C11_Witness ==
    wsState = "connecting" /\ seen_tokens # {} /\ Len(sleeps) = 2

(***************************************************************************)
(* The poll adapters on their own (specification SpecScan)                 *)
(***************************************************************************)
NextScan ==
    \/ DexFetch
    \/ DexLoop
    \/ BirdeyeFetch
    \/ BirdeyeLoop
    \/ NotifierReturns

InitScan == InitObserved /\ scanner = "multi"

SpecScan == InitScan /\ [][NextScan]_vars

\* the seen-set of a poll adapter
SeenOf(adapter) == IF adapter = "dex" THEN seen_pairs ELSE birdeye_seen

\* C13: a poll adapter reports each entity once. No identifier occurs
\* twice among the callbacks an adapter has made; every identifier called
\* back is in the adapter's seen-set, and a callback is only ever made for
\* an identifier that was not in the seen-set before, so that one already
\* there is never reported again, whatever its first callback did.
C13_ReportsOnce ==
    /\ [](\A i, j \in DOMAIN noted.callbacks :
             noted.callbacks[i] = noted.callbacks[j] => i = j)
    /\ [](\A i \in DOMAIN noted.callbacks :
             noted.callbacks[i][2] \in SeenOf(noted.callbacks[i][1]))
    /\ [][noted.callbacks' # noted.callbacks =>
            LET made == noted.callbacks'[Len(noted.callbacks')]
            IN  /\ noted.callbacks' = Append(noted.callbacks, made)
                /\ made[2] \notin SeenOf(made[1])]_vars

\* C13 witness: the only callback made so far ended without an alert, its
\* pair was fetched again and the loop is about to skip it
C13_Witness ==
    /\ alerted = {}
    /\ ScanCanLoop("dex_loop")
    /\ Head(scanQueue).pairAddress \in seen_pairs
    /\ noted.callbacks = << << "dex", Head(scanQueue).pairAddress >> >>

\* C14: a poll failure yields an empty tick. A fetch that raises or
\* answers with another status than 200 makes no callback (no call starts,
\* nothing is alerted, marked or recorded as called back), leaves both
\* seen-sets as they were, and leaves the scan loop at the fetch of the
\* other adapter with nothing queued, from where the next tick fetches.
C14_FailedPollIsEmptyTick ==
    [][/\ \A r \in DexResponses :
            FetchFailed(r) /\ DexFetchOf(r) =>
                scanPc' = "bird_get" /\ scanQueue' = << >>
       /\ \A r \in BirdeyeResponses :
            FetchFailed(r) /\ BirdeyeFetchOf(r) =>
                scanPc' = "dex_get" /\ scanQueue' = << >>
       /\ noted'.tags # noted.tags =>
            /\ seen_pairs' = seen_pairs
            /\ birdeye_seen' = birdeye_seen
            /\ call' = call
            /\ alerted' = alerted
            /\ seen_tokens' = seen_tokens
            /\ noted'.callbacks = noted.callbacks
            /\ scanPc' \in { "dex_get", "bird_get" }]_vars

\* C14 witness: a DexScreener poll failed, nothing has been called back
\* since, and a later DexScreener poll has fetched pairs
C14_Witness ==
    /\ "dex_failed" \in noted.tags
    /\ scanPc = "dex_loop"
    /\ noted.callbacks = << >>
    /\ seen_pairs = {}

(***************************************************************************)
(* DeveloperReputationTracker on its own (specification SpecTracker)       *)
(***************************************************************************)
InitTracker == Init /\ scanner = "multi"

NextTracker ==
    \E wallet \in Wallets :
        \/ AddKnownGoodDev(wallet)
        \/ AddKnownBadDev(wallet)
        \/ \E success \in BOOLEAN : UpdateDevHistory(wallet, success)

SpecTracker == InitTracker /\ [][NextTracker]_vars

\* C4: check_developer returns 'bad' for a blacklisted creator even when it
\* is also in elite_devs, else 'elite' for one of elite_devs, else 'good'
\* above a success rate of 1/2, else 'bad' below 1/5, else 'unknown'.
C4_BlacklistFirst ==
    \A wallet \in Wallets :
        CheckDeveloper(wallet) =
            IF wallet \in blacklisted_devs THEN "bad"
            ELSE IF wallet \in elite_devs THEN "elite"
            ELSE IF wallet \notin DOMAIN dev_history THEN "unknown"
            ELSE LET history == dev_history[wallet]
                 IN  IF 2 * history.successes > history.total THEN "good"
                     ELSE IF 5 * history.successes < history.total THEN "bad"
                     ELSE "unknown"

(***************************************************************************)
(* The filter and the scorer on their own (specification SpecFilter)       *)
(***************************************************************************)
\* criteria the operator can configure besides the defaults
MultiCustomCriteria ==
    [MultiCriteria EXCEPT !.max_token_age_seconds = 500,
                          !.require_theme_match = FALSE,
                          !.elite_dev_bonus = 100]

EliteCustomCriteria ==
    [EliteCriteria EXCEPT !.max_token_age_seconds = 500,
                          !.require_socials = TRUE]

CriteriaOf(scn) ==
    IF scn = "multi" THEN {MultiCriteria, MultiCustomCriteria}
    ELSE {EliteCriteria, EliteCustomCriteria}

\* winning_themes = {'dogs': ['doge', 'bonk']}
ThemeExampleCriteria(scn) ==
    LET themes == << [theme_name |-> "dogs",
                      keywords |-> << <<"d","o","g","e">>, <<"b","o","n","k">> >>] >>
    IN  IF scn = "multi" THEN [MultiCriteria EXCEPT !.winning_themes = themes]
        ELSE [EliteCriteria EXCEPT !.winning_themes = themes]

\* winning_themes = {'dogs': ['bonk']}, liquidity 20..200, age up to 600,
\* symbol length 3..8, min_priority_score 150
ScenarioCriteria(scn) ==
    LET themes == << [theme_name |-> "dogs", keywords |-> << <<"b","o","n","k">> >>] >>
    IN  IF scn = "multi" THEN [MultiCriteria EXCEPT !.winning_themes = themes]
        ELSE [EliteCriteria EXCEPT !.winning_themes = themes]

ExampleCriteriaOf(scn) == { ThemeExampleCriteria(scn), ScenarioCriteria(scn) }

MeetsCriteria(scn, criteria, token, t) ==
    IF scn = "multi" THEN MultiMeetsCriteria(criteria, token, t)
    ELSE EliteMeetsCriteria(criteria, token, t)

CalculatePriority(scn, criteria, token, t) ==
    IF scn = "multi" THEN MultiCalculatePriority(criteria, token, t)
    ELSE EliteCalculatePriority(criteria, token, t)

MaxScore(scn) == IF scn = "multi" THEN MultiMaxScore ELSE EliteMaxScore

\* the events given to the filter and the scorer
ProbeNames ==
    { <<"B","o","n","k">>,
      <<"D","o","g","C","a","t","P","e","p","e","A","i","T","r","u","m","p",
        "T","a","c","o">>,
      <<"M","o","o","n">> }

ProbeSymbols == { <<"B","O","N","K">>, <<"B","0","N","K","2","2">> }

ProbeTokens ==
    { [ParseTokenData(scn, MsgPepe, T0) EXCEPT
          !.name = name, !.symbol = symbol, !.initial_liquidity = liquidity,
          !.twitter = social, !.telegram = social,
          !.creator_reputation = reputation, !.timestamp = T0 - age] :
        scn \in {"multi"}, name \in ProbeNames, symbol \in ProbeSymbols,
        liquidity \in {0, 50, 5000}, social \in {None, "https://t.me/pepe"},
        reputation \in {None, "elite"}, age \in {50, 150} }

\* an event with the given name, symbol, liquidity, twitter link and age
ExampleToken(name, symbol, liquidity, twitter, age) ==
    [ParseTokenData("multi", MsgPepe, T0) EXCEPT
        !.address = "Addr1", !.name = name, !.symbol = symbol,
        !.initial_liquidity = liquidity, !.twitter = twitter,
        !.telegram = None, !.timestamp = T0 - age]

TokenRandomCoin == ExampleToken(<<"R","a","n","d","o","m","C","o","i","n">>, <<"R","C">>, 50, None, 150)
TokenStone == ExampleToken(<<"S","t","o","n","e">>, <<"S","T","N","E">>, 50, None, 150)
TokenStone22 == ExampleToken(<<"S","t","o","n","e">>, <<"S","T","2","2">>, 50, None, 150)
TokenStoneBonk == ExampleToken(<<"S","t","o","n","e">>, <<"B","O","N","K">>, 50, None, 150)
TokenDogecoin2 == ExampleToken(<<"D","o","g","e","c","o","i","n","2">>, <<"D","O","G","E">>, 50, None, 150)
TokenBonk2 == ExampleToken(<<"B","o","n","k">>, <<"B","O","N","K","2">>, 50, "https://x.com/bonk2", 150)

\* the Raydium pair of the DexScreener feed, liquidity 5000 USD
TokenRaydiumBonk == ParsePairData(PairBonk, T0)

\* a pump.fun event with 1 SOL of liquidity
TokenThinBonk ==
    ExampleToken(TokenStoneBonk.name, TokenStoneBonk.symbol, 1, None, 150)

ExampleTokens ==
    { TokenRandomCoin, TokenStone, TokenStone22, TokenStoneBonk,
      TokenDogecoin2, TokenBonk2, TokenRaydiumBonk, TokenThinBonk }

AllProbeTokens == ProbeTokens \cup ExampleTokens

ProbeTimes == { T0, T0 + 400, T0 + 700 }

InitFilter ==
    /\ InitScanner
    /\ elite_devs = {}
    /\ \E token \in AllProbeTokens,
          criteria \in CriteriaOf(scanner) \cup ExampleCriteriaOf(scanner) :
          /\ criteria \in ExampleCriteriaOf(scanner) => token \in ExampleTokens
          /\ probe = [NoProbe EXCEPT !.token = token, !.criteria = criteria]
    /\ noted = Unobserved

\* one call of meets_criteria and of calculate_priority at datetime.now()
Evaluation ==
    [ at       |-> now,
      age      |-> now - probe.token.timestamp,
      verdict  |-> MeetsCriteria(scanner, probe.criteria, probe.token, now),
      priority |-> CalculatePriority(scanner, probe.criteria, probe.token, now) ]

Evaluate ==
    /\ probe.first = << >>
    /\ probe' = [probe EXCEPT !.first = << Evaluation >>]
    /\ UNCHANGED << scanner, now, trackerVars, storeVars, streamVars,
                    scanVars, call, escaped, main, noted >>

EvaluateAgain ==
    /\ probe.first # << >>
    /\ probe.second = << >>
    /\ probe' = [probe EXCEPT !.second = << Evaluation >>]
    /\ UNCHANGED << scanner, now, trackerVars, storeVars, streamVars,
                    scanVars, call, escaped, main, noted >>

ProbeTick == Clock(ProbeTimes)

NextFilter ==
    \/ Evaluate
    \/ EvaluateAgain
    \/ ProbeTick

SpecFilter == InitFilter /\ [][NextFilter]_vars

Evaluations == { probe.first[i] : i \in DOMAIN probe.first }
                  \cup { probe.second[i] : i \in DOMAIN probe.second }

\* C5: whatever the event and the criteria, calculate_priority returns at
\* most 200 in EliteTokenScanner and at most 250 in MultiLaunchpadScanner.
C5_ScoreBound ==
    \A e \in Evaluations : e.priority <= MaxScore(scanner)

\* C5 witness: an event to which the best timing, liquidity, both socials,
\* symbol length, all six themes, the clean symbol and the elite creator
\* apply at once has been scored, and its score is the maximum
C5_Witness ==
    /\ scanner = "multi"
    /\ probe.first # << >>
    /\ probe.first[1].priority = MultiMaxScore
    /\ MultiRawScore(probe.criteria, probe.token, probe.first[1].at)
          >= 50 + 40 + 30 + 20 + 190 + 25 + 50

\* C6 as stated: two evaluations of the same event under the same criteria,
\* at any two points of an execution, return the same (pass, reason).
C6_SameResultAtAnyTwoPoints ==
    (probe.first # << >> /\ probe.second # << >>) =>
        probe.first[1].verdict = probe.second[1].verdict

\* C6 as amended: two evaluations of the same event under the same criteria
\* return the same (pass, reason) when they are made at the same clock
\* reading, or while the age of the event is within max_token_age_seconds
\* at both; past that age the result is (False, 'Too old: <age>s').
C6_SameResultWhileFresh ==
    (probe.first # << >> /\ probe.second # << >>) =>
        LET a == probe.first[1]
            b == probe.second[1]
            limit == probe.criteria.max_token_age_seconds
        IN  /\ (a.at = b.at \/ (a.age <= limit /\ b.age <= limit)) =>
                   a.verdict = b.verdict
            /\ \A e \in {a, b} :
                   e.age > limit => e.verdict = Fail(<<"Too old", e.age>>)

\* C6 witness: the same event passed at the first evaluation and was still
\* within the age limit, at a later clock reading, at the second
C6_Witness ==
    /\ probe.first # << >> /\ probe.second # << >>
    /\ probe.first[1].at < probe.second[1].at
    /\ probe.second[1].age <= probe.criteria.max_token_age_seconds
    /\ probe.first[1].verdict.passes

\* each predicate of meets_criteria on its own: whether it fails for the
\* event, and the reasons it returns when it does
FilterChecks(scn, criteria, token, t) ==
    LET name_lower   == Lower(token.name)
        symbol_lower == Lower(token.symbol)
        liq == IF scn = "multi" THEN MultiLiq(token)
               ELSE token.initial_liquidity
        lo  == IF scn = "multi" THEN criteria.min_liquidity
               ELSE criteria.min_pumpfun_liquidity
        hi  == IF scn = "multi" THEN criteria.max_liquidity * 1000
               ELSE criteria.max_pumpfun_liquidity
    IN  [ age       |-> [fails   |-> t - token.timestamp
                                        > criteria.max_token_age_seconds,
                         reasons |-> {"Too old"}],
          liquidity |-> [fails   |-> liq < lo \/ liq > hi,
                         reasons |-> {"Low liquidity", "High liquidity"}],
          socials   |-> [fails   |-> /\ scn = "elite"
                                     /\ criteria.require_socials
                                     /\ token.twitter = None
                                     /\ token.telegram = None,
                         reasons |-> {"No socials"}],
          length    |-> [fails   |-> \/ Len(token.symbol)
                                           > criteria.max_symbol_length
                                     \/ Len(token.symbol)
                                           < criteria.min_symbol_length,
                         reasons |-> {"Symbol too long", "Symbol too short"}],
          blacklist |-> [fails   |-> \E i \in DOMAIN criteria.blacklist_keywords :
                                        KeywordHit(criteria.blacklist_keywords[i],
                                                   name_lower, symbol_lower),
                         reasons |-> {"Blacklisted"}],
          banned    |-> [fails   |-> AnyBanned(criteria.banned_patterns,
                                               name_lower, symbol_lower),
                         reasons |-> {"Banned pattern"}],
          theme     |-> [fails   |-> /\ criteria.require_theme_match
                                     /\ ~HasTheme(criteria.winning_themes,
                                                  name_lower, symbol_lower),
                         reasons |-> {"No theme match"}],
          digits    |-> [fails   |-> DigitCount(token.symbol) > 1,
                         reasons |-> {"Too many numbers"}] ]

\* the order of the predicates as C15 gives it
ClaimedOrder ==
    << "age", "liquidity", "length", "blacklist", "banned", "theme",
       "digits" >>

\* the order of the predicates in meets_criteria of each scanner
CodeOrder(scn) ==
    IF scn = "elite"
    THEN << "age", "liquidity", "socials", "length", "blacklist", "banned",
            "theme", "digits" >>
    ELSE ClaimedOrder

\* the positions of `order` whose predicate fails
Failing(order, checks) == { i \in DOMAIN order : checks[order[i]].fails }

\* the verdict is that of a short-circuit chain over `order`
FollowsOrder(order, checks, verdict) ==
    LET failing == Failing(order, checks)
    IN  IF failing = {}
        THEN verdict.passes
        ELSE LET first == CHOOSE i \in failing : \A j \in failing : i <= j
             IN  /\ ~verdict.passes
                 /\ verdict.reason[1] \in checks[order[first]].reasons

ChecksAt(e) == FilterChecks(scanner, probe.criteria, probe.token, e.at)

\* C15 as stated: meets_criteria returns the reason of the earliest failing
\* predicate in the order age, liquidity range, symbol length, blacklist
\* keyword, banned pattern, theme requirement, digit count, and passes
\* only when none of them fails.
C15_OrderAsStated ==
    \A e \in Evaluations : FollowsOrder(ClaimedOrder, ChecksAt(e), e.verdict)

\* C15 as amended: the same, where in EliteTokenScanner the social-link
\* requirement (neither twitter nor telegram while require_socials is set,
\* reason 'No socials') stands between the liquidity range and the symbol
\* length.
C15_OrderWithSocials ==
    \A e \in Evaluations :
        FollowsOrder(CodeOrder(scanner), ChecksAt(e), e.verdict)

\* C15 witness: an event without social links that also fails a later
\* predicate was evaluated by EliteTokenScanner with require_socials set
C15_Witness ==
    /\ scanner = "elite"
    /\ \E e \in Evaluations :
          /\ ChecksAt(e).socials.fails
          /\ e.verdict = Fail(<<"No socials">>)
          /\ Cardinality(Failing(CodeOrder(scanner), ChecksAt(e))) >= 2

\* the positions of `order` before the theme requirement
BeforeTheme(order) ==
    { i \in DOMAIN order : \A j \in 1..i : order[j] # "theme" }

\* the event has a keyword of a configured theme in its lowercased name or
\* symbol
ThemeKeywordPresent(criteria, token) ==
    \E i \in DOMAIN criteria.winning_themes :
        \E k \in DOMAIN criteria.winning_themes[i].keywords :
            \/ Contains(Lower(token.name),
                        criteria.winning_themes[i].keywords[k])
            \/ Contains(Lower(token.symbol),
                        criteria.winning_themes[i].keywords[k])

\* an event with a theme keyword and at most one digit in its symbol is
\* rejected by neither the theme check nor the digit-count check
ThemedNotRejectedForTheme(e) ==
    (/\ ThemeKeywordPresent(probe.criteria, probe.token)
     /\ DigitCount(probe.token.symbol) <= 1) =>
        (e.verdict.passes
         \/ e.verdict.reason[1] \notin {"No theme match", "Too many numbers"})

\* C16 as stated: with require_theme_match, every event without a theme
\* keyword in its name and symbol is rejected with 'No theme match'; an
\* event with a theme keyword and at most one digit in its symbol is
\* rejected by neither the theme check nor the digit-count check.
C16_ThemeGatingAsStated ==
    \A e \in Evaluations :
        /\ (/\ probe.criteria.require_theme_match
            /\ ~ThemeKeywordPresent(probe.criteria, probe.token)) =>
               e.verdict = Fail(<<"No theme match">>)
        /\ ThemedNotRejectedForTheme(e)

\* C16 as amended: with require_theme_match, every event without a theme
\* keyword is rejected, and with 'No theme match' when no predicate before
\* the theme requirement fails (age, liquidity range, social links in
\* EliteTokenScanner, symbol length, blacklist keyword, banned pattern);
\* otherwise with the reason of the first of those that fails. The second
\* half is as stated.
C16_ThemeGatingAfterEarlierChecks ==
    \A e \in Evaluations :
        /\ (/\ probe.criteria.require_theme_match
            /\ ~ThemeKeywordPresent(probe.criteria, probe.token)) =>
               /\ ~e.verdict.passes
               /\ (Failing(CodeOrder(scanner), ChecksAt(e))
                      \cap BeforeTheme(CodeOrder(scanner)) = {})
                   <=> e.verdict = Fail(<<"No theme match">>)
        /\ ThemedNotRejectedForTheme(e)

\* C16 witness: under themes {dogs: [doge, bonk]} the event Stone/STNE,
\* which passes every earlier predicate, was rejected for its theme
C16_Witness ==
    /\ probe.criteria = ThemeExampleCriteria(scanner)
    /\ probe.token = TokenStone
    /\ \E e \in Evaluations : e.verdict = Fail(<<"No theme match">>)

\* C17: the event {Addr1, BONK2, liquidity 50, age 150 s, twitter set}
\* under the criteria {liquidity 20..200, age up to 600, symbol length
\* 3..8, themes {dogs: [bonk]}, min_priority_score 150} passes the filter,
\* and its score is the top timing tier (50) plus the best liquidity tier
\* (40) plus one social link (15) plus the top symbol-length tier (20) plus
\* the hot-theme bonus (35) plus the partial clean-symbol bonus (15).
C17_ScenarioScore ==
    (probe.token = TokenBonk2 /\ probe.criteria = ScenarioCriteria(scanner)) =>
        \A e \in Evaluations :
            e.age = 150 =>
                /\ e.verdict.passes
                /\ e.priority = 50 + 40 + 15 + 20 + 35 + 15

\* C18: no automatic promotion or demotion. In every state reached by
\* add_known_good_dev, add_known_bad_dev and update_dev_history calls, a
\* creator in elite_devs and not blacklisted is classified 'elite' and a
\* creator in blacklisted_devs is classified 'bad'; update_dev_history
\* leaves both sets as they are, and no operation removes a member.
C18_ListsTakePrecedence ==
    /\ [](\A wallet \in Wallets :
             /\ (wallet \in elite_devs /\ wallet \notin blacklisted_devs) =>
                    CheckDeveloper(wallet) = "elite"
             /\ wallet \in blacklisted_devs => CheckDeveloper(wallet) = "bad")
    /\ [][/\ elite_devs \subseteq elite_devs'
           /\ blacklisted_devs \subseteq blacklisted_devs'
           /\ dev_history' # dev_history =>
                 (elite_devs' = elite_devs
                  /\ blacklisted_devs' = blacklisted_devs)]_vars

\* the counters of a creator before its first update_dev_history call
NoRecord == [successes |-> 0, total |-> 0]

CountersOf(history, wallet) ==
    IF wallet \in DOMAIN history THEN history[wallet] ELSE NoRecord

\* C19: each update_dev_history call for a creator adds 1 to its total and
\* 1 to its successes iff success is true, creates the record at the first
\* call, leaves the record of every other creator (and its absence) as it
\* was, and sets success_rate to successes / total; dev_history changes in
\* no other way, and every record has 0 <= successes <= total and
\* total >= 1.
C19_Bookkeeping ==
    /\ [](\A wallet \in DOMAIN dev_history :
             LET history == dev_history[wallet]
             IN  /\ 0 <= history.successes
                 /\ history.successes <= history.total
                 /\ history.total >= 1
                 /\ history.success_rate
                       = << history.successes, history.total >>)
    /\ [][\A wallet \in Wallets, success \in BOOLEAN :
             UpdateDevHistory(wallet, success) =>
                 LET before == CountersOf(dev_history, wallet)
                     after  == dev_history'[wallet]
                 IN  /\ wallet \in DOMAIN dev_history'
                     /\ after.total = before.total + 1
                     /\ after.successes
                           = before.successes + (IF success THEN 1 ELSE 0)
                     /\ after.success_rate
                           = << after.successes, after.total >>
                     /\ DOMAIN dev_history'
                           = DOMAIN dev_history \cup {wallet}
                     /\ \A other \in DOMAIN dev_history \ {wallet} :
                           dev_history'[other] = dev_history[other]]_vars
    /\ [][dev_history' # dev_history =>
             \E wallet \in Wallets :
                 LET before == CountersOf(dev_history, wallet)
                     after  == CountersOf(dev_history', wallet)
                 IN  /\ after.total = before.total + 1
                     /\ after.successes - before.successes \in {0, 1}]_vars

\* C19 witness: one creator has failed and succeeded, another one has a
\* single failed launch
C19_Witness ==
    /\ DOMAIN dev_history = Wallets
    /\ \E wallet \in Wallets :
          /\ dev_history[wallet].total >= 3
          /\ dev_history[wallet].successes = 1
    /\ \E wallet \in Wallets :
          dev_history[wallet] = [launches |-> << >>, successes |-> 0,
                                 total |-> 1, success_rate |-> << 0, 1 >>]

(***************************************************************************)
(* main() from its first statement (specification SpecMain)                *)
(***************************************************************************)
\* main() up to its first suspension: the two os.getenv reads, the two
\* placeholder tests with print and return, else the constructor and
\* scanner.start() up to `await self.bot.send_message(...)` of the startup
\* message.  After `return`, asyncio.run(main()) returns and the
\* interpreter ends with status 0.
MainCheckEnv ==
    /\ main.pc = "env"
    /\ main' =
          IF ~main.env_token
          THEN [main EXCEPT !.pc = "returned",
                            !.diagnostic = "TELEGRAM_BOT_TOKEN",
                            !.exit_code = << 0 >>]
          ELSE IF ~main.env_chat
          THEN [main EXCEPT !.pc = "returned",
                            !.diagnostic = "TELEGRAM_CHAT_ID",
                            !.exit_code = << 0 >>]
          ELSE [main EXCEPT !.pc = "starting",
                            !.constructed = TRUE,
                            !.startup_calls = 1]
    /\ UNCHANGED << scanner, now, trackerVars, storeVars, streamVars,
                    scanVars, call, escaped, probe, noted >>

\* bot.send_message of the startup message ends: send_message catches a
\* TelegramError and start() returns, run() creates the adapter tasks;
\* any other exception leaves start() and main() through `finally` and
\* asyncio.run re-raises it (exit status 1).
MainStartupSent ==
    /\ main.pc = "starting"
    /\ \E result \in NotifierResults :
          IF result = "ok" \/ SendMessageCatches(result)
          THEN /\ main' = [main EXCEPT !.pc = "running",
                                      !.cleanup = "sleeping"]
               /\ wsState' = "connecting"
               /\ scanPc' = IF scanner = "multi" THEN "dex_get" ELSE "off"
          ELSE /\ main' = [main EXCEPT !.pc = "raised",
                                      !.exit_code = << 1 >>]
               /\ UNCHANGED << wsState, scanPc >>
    /\ UNCHANGED << scanner, now, trackerVars, storeVars, current_delay,
                    sleeps, scanQueue, seen_pairs, birdeye_seen, call,
                    escaped, probe, noted >>

InitMain ==
    /\ scanner \in {"multi", "elite"}
    /\ now = T0
    /\ seen_tokens = {}
    /\ elite_devs = {}
    /\ blacklisted_devs = {}
    /\ dev_history = EmptyHistory
    /\ wsState = "off"
    /\ current_delay = reconnect_delay
    /\ scanPc = "off"
    /\ scanQueue = << >>
    /\ seen_pairs = {}
    /\ birdeye_seen = {}
    /\ call = [T \in Tasks |-> << >>]
    /\ alerted = {}
    /\ evicted = FALSE
    /\ escaped = FALSE
    /\ sleeps = << >>
    /\ main \in MainAtEntry
    /\ probe = NoProbe
    /\ noted = Unobserved

NextMain ==
    \/ MainCheckEnv
    \/ MainStartupSent
    \/ Next

SpecMain == InitMain /\ [][NextMain]_vars

\* C20: when the notifier token or the chat id is absent from the
\* environment, main halts with a diagnostic and a non-zero exit status,
\* and in that run no adapter loop is started, no scanner is constructed
\* and no notifier call is made.
C20_FatalStartupConfiguration ==
    ((~main.env_token \/ ~main.env_chat) /\ main.pc # "env") =>
        /\ main.pc = "returned"
        /\ main.diagnostic # None
        /\ main.exit_code # << >>
        /\ main.exit_code # << 0 >>
        /\ ~main.constructed
        /\ main.startup_calls = 0
        /\ wsState = "off" /\ scanPc = "off"
        /\ call = [T \in Tasks |-> << >>] /\ alerted = {}

(***************************************************************************)
(* Shutdown (specification SpecShutdown)                                   *)
(*                                                                         *)
(* main() has no shutdown code of its own beyond `finally: await           *)
(* scanner.stop()`: an interrupt makes asyncio.run cancel the main task    *)
(* and, through asyncio.gather, the three tasks of run().  A cancelled     *)
(* task gets CancelledError at the await where it is suspended; it is a    *)
(* BaseException, which none of the `except Exception` clauses catches.    *)
(***************************************************************************)
\* the interrupt arrives: every task of run() has its cancellation
\* requested, and none of them resumes normally after this
ShutdownSignal ==
    /\ main.pc = "running"
    /\ main' = [main EXCEPT !.pc = "cancelling"]
    /\ UNCHANGED << scanner, now, trackerVars, storeVars, streamVars,
                    scanVars, call, escaped, probe, noted >>

\* A variant of LoopCatchesCancel in which CancelledError is an Exception.
LoopCatchesCancel_asException == TRUE

\* whether the `except Exception` of the reconnect loop catches
\* CancelledError
LoopCatchesCancel == FALSE

\* CancelledError reaches connect_and_subscribe at its await: it leaves
\* `async with websockets.connect(...)`, which closes the connection, and
\* the `while True` loop
StreamCancelled ==
    /\ main.pc = "cancelling"
    /\ wsState \in LoopStates
    /\ wsState' = IF LoopCatchesCancel THEN "backoff" ELSE "closed"
    /\ call' = [call EXCEPT !["stream"] = << >>]
    /\ UNCHANGED << scanner, now, trackerVars, storeVars, current_delay,
                    sleeps, scanVars, escaped, probe, main, noted >>

\* CancelledError reaches scan_other_sources at its await
ScanCancelled ==
    /\ main.pc = "cancelling"
    /\ scanPc \notin {"off", "cancelled"}
    /\ scanPc' = "cancelled"
    /\ scanQueue' = << >>
    /\ call' = [call EXCEPT !["scan"] = << >>]
    /\ UNCHANGED << scanner, now, trackerVars, storeVars, streamVars,
                    seen_pairs, birdeye_seen, escaped, probe, main, noted >>

\* CancelledError reaches cleanup_task in its asyncio.sleep(600)
CleanupCancelled ==
    /\ main.pc = "cancelling"
    /\ main.cleanup = "sleeping"
    /\ main' = [main EXCEPT !.cleanup = "cancelled"]
    /\ UNCHANGED << scanner, now, trackerVars, storeVars, streamVars,
                    scanVars, call, escaped, probe, noted >>

\* every task of run() has ended
TasksEnded ==
    /\ wsState \notin LoopStates
    /\ scanPc \in {"off", "cancelled"}
    /\ main.cleanup # "sleeping"

\* asyncio.gather ends, `await scanner.run()` raises in main, and
\* `finally: await scanner.stop()` closes the HTTP session
MainFinally ==
    /\ main.pc = "cancelling"
    /\ TasksEnded
    /\ main' = [main EXCEPT !.pc = "stopped"]
    /\ UNCHANGED << scanner, now, trackerVars, storeVars, streamVars,
                    scanVars, call, escaped, probe, noted >>

\* the tasks of run() take their normal steps while none is cancelled
RunningStep == main.pc = "running" /\ Next

NextShutdown ==
    \/ RunningStep
    \/ ShutdownSignal
    \/ StreamCancelled
    \/ ScanCancelled
    \/ CleanupCancelled
    \/ MainFinally

\* the event loop runs every task whose cancellation was requested
SpecShutdown ==
    /\ Init
    /\ [][NextShutdown]_vars
    /\ WF_vars(StreamCancelled)
    /\ WF_vars(ScanCancelled)
    /\ WF_vars(CleanupCancelled)
    /\ WF_vars(MainFinally)

\* C21: after the shutdown signal the stream loop, the poll-scan loop and
\* the eviction timer eventually have all stopped, with the stream
\* connection closed, and main has returned through scanner.stop(); from
\* the signal on no adapter invokes the callback (no call starts, nothing
\* is alerted or marked) and no eviction runs.
C21_Shutdown ==
    /\ (main.pc = "cancelling") ~>
          (main.pc = "stopped" /\ TasksEnded /\ wsState = "closed")
    /\ [][main.pc # "running" =>
            /\ alerted' = alerted
            /\ seen_tokens' = seen_tokens
            /\ evicted' = evicted
            /\ seen_pairs' = seen_pairs
            /\ birdeye_seen' = birdeye_seen
            /\ \A T \in Tasks : call'[T] \in {call[T], << >>}]_vars
    /\ [](main.pc = "stopped" => TasksEnded)

\* C21 witness: the signal came while the stream task was sending an
\* alert and the scan task was in its loop; everything has stopped
C21_Witness ==
    /\ main.pc = "stopped"
    /\ wsState = "closed"
    /\ scanPc = "cancelled"
    /\ alerted # {}
    /\ seen_tokens = {}

\* the theme component of calculate_priority for the probed event
ThemeComponent ==
    ThemeScore(probe.criteria.winning_themes, 1, Lower(probe.token.name),
               Lower(probe.token.symbol))

\* the configured themes of which the probed event has a keyword, in the
\* order of the configuration
MatchingThemes ==
    LET themes == probe.criteria.winning_themes
    IN  { i \in DOMAIN themes :
            \E k \in DOMAIN themes[i].keywords :
                \/ Contains(Lower(probe.token.name), themes[i].keywords[k])
                \/ Contains(Lower(probe.token.symbol), themes[i].keywords[k]) }

\* C22: no theme stacking. The theme component of calculate_priority is
\* 0 for an event that matches no theme, and otherwise the amount of the
\* first matching theme alone: 35 for a hot theme, 25 for a soft one.
C22_NoThemeStacking ==
    probe.first # << >> =>
        LET themes == probe.criteria.winning_themes
            first  == CHOOSE i \in MatchingThemes :
                          \A j \in MatchingThemes : i <= j
        IN  ThemeComponent =
                IF MatchingThemes = {} THEN 0
                ELSE IF themes[first].theme_name \in HotThemes THEN 35
                ELSE 25

\* the configured liquidity bounds
MinLiquidity(scn, criteria) ==
    IF scn = "multi" THEN criteria.min_liquidity
    ELSE criteria.min_pumpfun_liquidity

MaxLiquidity(scn, criteria) ==
    IF scn = "multi" THEN criteria.max_liquidity
    ELSE criteria.max_pumpfun_liquidity

\* C23: every event that passes meets_criteria has its liquidity, in the
\* unit of its own source, between the configured minimum and maximum, and
\* an event of acceptable age whose liquidity is outside them is rejected
\* with a liquidity reason.
C23_LiquidityGate ==
    \A e \in Evaluations :
        LET v  == probe.token.initial_liquidity
            lo == MinLiquidity(scanner, probe.criteria)
            hi == MaxLiquidity(scanner, probe.criteria)
        IN  /\ e.verdict.passes => (lo <= v /\ v <= hi)
            /\ (e.age <= probe.criteria.max_token_age_seconds
                  /\ (v < lo \/ v > hi)) =>
                   /\ ~e.verdict.passes
                   /\ e.verdict.reason[1]
                         \in {"Low liquidity", "High liquidity"}

\* C24: developer block. block_bad_devs is set in the criteria of
\* MultiLaunchpadScanner; no event whose creator check_developer
\* classifies as 'bad' when it is processed starts a notifier call, and
\* none is added to seen_tokens, whatever the creator identity, the empty
\* one included.
C24_DeveloperBlock ==
    [][\A T \in Tasks :
          /\ Dispatched(T) =>
                CheckDeveloper(call'[T][1].token.creator) # "bad"
          /\ (/\ call[T] # << >> /\ call'[T] = << >>
              /\ call[T][1].token.address \in seen_tokens' \ seen_tokens) =>
                CheckDeveloper(call[T][1].token.creator) # "bad"]_vars

\* C25: source allow-list. allowed_sources of MultiLaunchpadScanner is
\* non-empty; every event for which a notifier call starts has its source
\* tag in it, and an event that an adapter produces with a tag outside it
\* (the DexScreener pair of a DEX that is none of Raydium, Orca and
\* Jupiter is tagged dex_<id>) ends on_new_token at the source filter or
\* before, so that meets_criteria and calculate_priority do not run.
C25_SourceAllowList ==
    /\ [][\A T \in Tasks :
            (scanner = "multi" /\ Dispatched(T)) =>
                call'[T][1].token.source \in MultiCriteria.allowed_sources]_vars
    /\ [](scanner = "multi" =>
            \A pair \in DexPairs :
                LET token == ParsePairData(pair, now)
                IN  token.source \notin MultiCriteria.allowed_sources =>
                        MultiGate(token, now).stage <= StepSource)

\* C25 witness: the Raydium pair was alerted, and the Meteora pair, tagged
\* dex_meteora, was called back and dropped
C25_Witness ==
    /\ scanner = "multi"
    /\ "Pool2" \in seen_pairs
    /\ birdeye_seen = {}
    /\ alerted = {"Addr1"}
    /\ ParsePairData(PairDoge, now).source \notin MultiCriteria.allowed_sources

\* the delays of the reconnect loop: the base doubled up to the ceiling
DelayValues == { 5, 10, 20, 40, 60 }

\* C26: in every state of connect_and_subscribe the current delay is one
\* of 5, 10, 20, 40 and 60, at least the base and at most the ceiling, and
\* so is every delay that was slept.
C26_DelayRange ==
    /\ current_delay \in DelayValues
    /\ reconnect_delay <= current_delay
    /\ current_delay <= max_reconnect_delay
    /\ \A i \in DOMAIN sleeps : sleeps[i] \in DelayValues

\* C26 witness: the delay has reached the ceiling and stayed there for
\* another failed attempt
C26_Witness ==
    /\ wsState = "backoff"
    /\ current_delay = max_reconnect_delay
    /\ Len(sleeps) >= 5
    /\ sleeps[Len(sleeps)] = max_reconnect_delay

\* C27: eviction is all-or-nothing. The eviction check empties the Dedup
\* Store when it holds more addresses than the ceiling and leaves it as it
\* is otherwise; a step that removes any address removes them all, and is
\* an eviction check on a store above the ceiling.
C27_AllOrNothing ==
    [][/\ CleanupTask =>
            seen_tokens' = IF Cardinality(seen_tokens) > Ceiling(scanner)
                           THEN {} ELSE seen_tokens
       /\ seen_tokens \ seen_tokens' # {} =>
            /\ seen_tokens' = {}
            /\ Cardinality(seen_tokens) > Ceiling(scanner)
            /\ CleanupTask]_vars

\* C27 witness: the store has just been emptied by an eviction check
C27_Witness == evicted /\ seen_tokens = {} /\ alerted = {}

C29_NonEmptyAddress ==
    [][/\ \A data \in InboundMessages, fault \in Faults :
             LET token == HandleMessage(scanner, data, now)
             IN  (StreamReceiveOf(data, fault) /\ token # << >>) =>
                     token[1].address # ""
       /\ (DexLoop /\ seen_pairs' # seen_pairs) =>
             ParsePairData(Head(scanQueue), now).address # ""
       /\ \A T \in Tasks :
             Dispatched(T) => call'[T][1].token.address # ""]_vars

\* the pairs that DexScreener returns in the model
AllPairs == DexPairs \cup { PairNoAddress, PairBonkOrca }

\* the addresses of the pairs that DexScreenerMonitor has called back with
ReportedByDex ==
    { ParsePairData(pair, now).address :
        pair \in { p \in AllPairs : p.pairAddress \in seen_pairs } }

\* the sets seen_pairs and BirdeyeMonitor.seen_tokens only grow, and the
\* cleanup task leaves them as they are
AdapterSetsKept ==
    /\ seen_pairs \subseteq seen_pairs'
    /\ birdeye_seen \subseteq birdeye_seen'
    /\ CleanupTask => UNCHANGED << seen_pairs, birdeye_seen >>

\* C30 as stated: clearing the Dedup Store leaves seen_pairs and the
\* seen_tokens of BirdeyeMonitor unchanged and they only grow, and after an
\* eviction a poll adapter never calls back with an address that it has
\* called back with before.
C30_NeverThroughSameAdapter ==
    [][/\ AdapterSetsKept
       /\ (evicted /\ DexLoop /\ seen_pairs' # seen_pairs) =>
             ParsePairData(Head(scanQueue), now).address \notin ReportedByDex
       /\ (evicted /\ BirdeyeLoop /\ birdeye_seen' # birdeye_seen) =>
             Head(scanQueue).address \notin birdeye_seen]_vars

\* C30 as amended: clearing the Dedup Store leaves both sets unchanged and
\* they only grow; after an eviction DexScreenerMonitor never calls back
\* again for a pair address in seen_pairs (it does for another pair of the
\* same token) and BirdeyeMonitor never for an address in its seen_tokens.
C30_NeverForSameKey ==
    [][/\ AdapterSetsKept
       /\ (DexLoop /\ Head(scanQueue).pairAddress \in seen_pairs) =>
             UNCHANGED << call, alerted, seen_pairs >>
       /\ (BirdeyeLoop /\ Head(scanQueue).address \in birdeye_seen) =>
             UNCHANGED << call, alerted, birdeye_seen >>]_vars

\* C30 witness: the store was cleared and the sets of both poll adapters
\* still hold what they reported before
C30_Witness ==
    /\ evicted
    /\ seen_tokens = {}
    /\ "Pool1" \in seen_pairs
    /\ "Addr3" \in birdeye_seen

(***************************************************************************)
(* The tracker's update calls next to the pipeline (specification          *)
(* SpecFrame)                                                              *)
(***************************************************************************)
\* a call of add_known_good_dev, add_known_bad_dev or update_dev_history
\* for the wallet
TrackerUpdateOf(wallet) ==
    \/ AddKnownGoodDev(wallet)
    \/ AddKnownBadDev(wallet)
    \/ \E success \in BOOLEAN : UpdateDevHistory(wallet, success)

TrackerUpdate == \E wallet \in Wallets : TrackerUpdateOf(wallet)

\* the update calls are made for the creator of MsgBonk
NextFrame ==
    \/ TrackerUpdateOf(MsgBonk.traderPublicKey)
    \/ Connect
    \/ Subscribe
    \/ StreamReceive
    \/ NotifierReturns

SpecFrame == InitTracker /\ [][NextFrame]_vars

\* the fields of an event other than creator_reputation
Unannotated(token) == [token EXCEPT !.creator_reputation = None]

\* C31: elite_devs, blacklisted_devs and dev_history change only in a call
\* of add_known_good_dev, add_known_bad_dev or update_dev_history, never in
\* a step of the on_new_token pipeline (check_developer, meets_criteria,
\* calculate_priority included); the event that the pipeline goes on with
\* differs from the one the adapter handed over in creator_reputation only.
C31_ReputationFrame ==
    /\ [][/\ trackerVars' # trackerVars => TrackerUpdate
          /\ (\E T \in Tasks : call'[T] # call[T]) =>
                trackerVars' = trackerVars]_vars
    /\ [](\A data \in StreamMessages :
             LET token == ParseTokenData(scanner, data, now)
             IN  Unannotated(Gate(scanner, token, now).token)
                     = Unannotated(token))

\* C31 witness: DevA was made elite by add_known_good_dev and the pipeline
\* has annotated and dispatched DevA's event
C31_Witness ==
    /\ elite_devs = {"DevA"}
    /\ InFlight("stream")
    /\ call["stream"][1].token.creator = "DevA"
    /\ call["stream"][1].token.creator_reputation = "elite"

\* scan_other_sources is at `await self.birdeye.scan_new_tokens()`
BirdeyeCanFetch == scanPc = "bird_get"

\* scan_new_pairs is under way: in its loop, or in a callback of it
DexScanUnderWay == scanPc = "dex_loop"

\* C32: the poll adapters run on intervals of their own: while a scan of
\* DexScreenerMonitor is under way, with a callback of it pending or not,
\* BirdeyeMonitor can start its scan; and a pending callback of a poll
\* adapter does not keep the stream loop from its next message.
C32_IndependentCadence ==
    /\ DexScanUnderWay => BirdeyeCanFetch
    /\ (InFlight("scan") /\ wsState = "streaming" /\ ~InFlight("stream"))
          => StreamCanReceive

(***************************************************************************)
(* EliteTokenScanner with a notifier whose failures stay inside            *)
(* send_message (specification SpecElite)                                  *)
(***************************************************************************)
\* what bot.send_message does when nothing leaves send_message: it returns
\* or it raises the TelegramError that send_message catches
ContainedResults == {"ok", "TelegramError"}

NotifierContained ==
    \E result \in ContainedResults : NotifierReturnsOf("stream", result)

InitElite == Init /\ scanner = "elite"

NextElite ==
    \/ Connect
    \/ ConnectFails
    \/ Subscribe
    \/ SubscribeFails
    \/ StreamReceive
    \/ StreamError
    \/ BackoffSleep
    \/ NotifierContained
    \/ CleanupTask
    \/ Tick

SpecElite == InitElite /\ [][NextElite]_vars

\* C33: in EliteTokenScanner, when no notifier call raises out of
\* send_message, no address gets a second notifier call before the next
\* clearing of seen_tokens: a call is only started for an address without
\* a call since the last clearing, and never while another call is pending.
C33_SingleProducerAtMostOnce ==
    [][\A T \in Tasks :
          (call'[T] # call[T] /\ call'[T] # << >>) =>
              /\ call[T] = << >>
              /\ call'[T][1].token.address \notin alerted
              /\ T = "stream"]_vars

\* C33 witness: one address is alerted and marked, the stream went on, and
\* the first call for another address is pending
C33_Witness ==
    /\ scanner = "elite"
    /\ seen_tokens # {}
    /\ InFlight("stream")
    /\ alerted = seen_tokens \cup {call["stream"][1].token.address}
    /\ call["stream"][1].token.address \notin seen_tokens

\* C34: current_delay is set back to reconnect_delay only in the step in
\* which the subscribe message has been sent over the open connection; the
\* opening of the connection leaves it, an attempt that fails to connect
\* and one that connects and fails to subscribe leave it and go to the
\* sleep, and the sleep lasts current_delay and doubles it up to the cap.
C34_ResetPoint ==
    [][/\ (current_delay' = reconnect_delay /\ current_delay # reconnect_delay)
             => (wsState = "subscribing" /\ wsState' = "streaming")
       /\ (wsState = "subscribing" /\ wsState' = "streaming")
             => current_delay' = reconnect_delay
       /\ (wsState = "connecting" /\ wsState' = "subscribing")
             => current_delay' = current_delay
       /\ (wsState \in {"connecting", "subscribing"} /\ wsState' = "backoff")
             => (current_delay' = current_delay /\ sleeps' = sleeps)
       /\ (wsState = "backoff" /\ wsState' = "connecting")
             => /\ sleeps' = Append(sleeps, current_delay)
                /\ current_delay'
                     = Min(current_delay * 2, max_reconnect_delay)]_vars

\* C34 witness: two attempts failed, the third has connected and the delay
\* is still the doubled one
C34_Witness ==
    /\ wsState = "subscribing"
    /\ sleeps = << 5, 10 >>
    /\ current_delay = 20

=============================================================================
